---- MODULE Spec2Model ----
(***************************************************************************)
(* A state-machine model of the db-mcp query broker: the database adapter  *)
(* (MySQLAdapter / PostgreSQLAdapter, which share one control structure),  *)
(* the execute_query tool of the multi-database server, the query          *)
(* validator, and the single-pool QueryExecutor over DatabaseConnection.   *)
(*                                                                         *)
(* JavaScript runs each handler to its next await without interruption, so *)
(* one action is the code between two suspension points.  The driver       *)
(* (mysql2 / pg) is the environment: each promise it has handed out        *)
(* settles at some later step, fulfilled or rejected, in any order.        *)
(***************************************************************************)
EXTENDS Integers, Sequences, FiniteSets, TLC

----------------------------------------------------------------------------
(* Bounds of the model *)

NumCallers == 2      \* concurrent callers of one adapter
MaxCalls == 2        \* adapter calls started in one behaviour
MaxTxLen == 2        \* statements of one transaction() call
MaxExecTime == 1     \* largest measured Date.now() - startTime

Callers == 1..NumCallers

----------------------------------------------------------------------------
(* SQL text.  A query is a sequence of lexemes: words, white space and     *)
(* comment / quote marks; the adapter never interprets it.                 *)

SqlSelectOne == <<"SELECT", " ", "1">>
SqlDeleteUsers == <<"DELETE", " ", "FROM", " ", "users">>

\* statement i of a transaction's input
TxStatement(i) == <<"SELECT", " ", "col", " ", "FROM", " ", "t", " ", "LIMIT", " ", ToString(i)>>

----------------------------------------------------------------------------
(* QueryValidator.  Regular expressions and substring tests work on the     *)
(* lexemes: a lexeme stands for its characters, adjacent lexemes for their *)
(* concatenation.                                                          *)

maxQueryLength == 10000

IsSpace(x) == x \in {" ", "\n", "\t", "\r"}

\* String.prototype.toUpperCase on one lexeme
Upper(x) ==
  CASE x = "select" -> "SELECT"
    [] x = "delete" -> "DELETE"
    [] x = "from" -> "FROM"
    [] x = "where" -> "WHERE"
    [] x = "users" -> "USERS"
    [] x = "Users" -> "USERS"
    [] x = "col" -> "COL"
    [] x = "t" -> "T"
    [] x = "updated_at" -> "UPDATED_AT"
    [] x = "limit" -> "LIMIT"
    [] OTHER -> x

\* the upper-case texts of the validator's lists that occur inside an upper-case
\* lexeme besides the lexeme itself
TextInside(X) ==
  CASE X = "UPDATED_AT" -> {"UPDATE"}
    [] X = "EXECUTE" -> {"EXEC"}
    [] X = "INFORMATION_SCHEMA.TABLES" -> {"INFORMATION_SCHEMA", "SCHEMA"}
    [] X = "MYSQL.USER" -> {"USER"}
    [] X = "DESCRIPTION" -> {"SCRIPT", "DESC"}
    [] OTHER -> {}

\* text.toUpperCase().includes(word) for a text of one lexeme
LexemeIncludes(x, word) == word = Upper(x) \/ word \in TextInside(Upper(x))

RECURSIVE SumLen(_)
SumLen(q) == IF q = <<>> THEN 0 ELSE Len(Head(q)) + SumLen(Tail(q))

\* query.length
QueryLength(q) == SumLen(q)

RECURSIVE TrimLeft(_)
TrimLeft(q) == IF q # <<>> /\ IsSpace(Head(q)) THEN TrimLeft(Tail(q)) ELSE q

RECURSIVE TrimRight(_)
TrimRight(q) ==
  IF q # <<>> /\ IsSpace(q[Len(q)]) THEN TrimRight(SubSeq(q, 1, Len(q) - 1)) ELSE q

\* String.prototype.trim
Trim(q) == TrimRight(TrimLeft(q))

\* replace(/\s+/g, ' ')
RECURSIVE CollapseSpaces(_)
CollapseSpaces(q) ==
  IF q = <<>> THEN <<>>
  ELSE IF IsSpace(Head(q)) THEN <<" ">> \o CollapseSpaces(TrimLeft(q))
  ELSE <<Head(q)>> \o CollapseSpaces(Tail(q))

\* the rest of q from its first line break on (the break included)
RECURSIVE FromLineBreak(_)
FromLineBreak(q) ==
  IF q = <<>> \/ Head(q) \in {"\n", "\r"} THEN q ELSE FromLineBreak(Tail(q))

\* replace(/--.*$/gm, ''): each "--" goes with everything up to the end of its line
RECURSIVE StripLineComments(_)
StripLineComments(q) ==
  IF q = <<>> THEN <<>>
  ELSE IF Head(q) = "--" THEN StripLineComments(FromLineBreak(Tail(q)))
  ELSE <<Head(q)>> \o StripLineComments(Tail(q))

\* what follows the first "*/" of q, or <<"unclosed">> when q has none
RECURSIVE AfterCommentEnd(_)
AfterCommentEnd(q) ==
  IF q = <<>> THEN <<"unclosed">>
  ELSE IF Head(q) = "*/" THEN <<"closed", Tail(q)>>
  ELSE AfterCommentEnd(Tail(q))

\* replace(/\/\*[\s\S]*?\*\//g, '')
RECURSIVE StripBlockComments(_)
StripBlockComments(q) ==
  IF q = <<>> THEN <<>>
  ELSE IF Head(q) = "/*" /\ AfterCommentEnd(Tail(q))[1] = "closed"
  THEN StripBlockComments(AfterCommentEnd(Tail(q))[2])
  ELSE <<Head(q)>> \o StripBlockComments(Tail(q))

\* QueryValidator.normalizeQuery
NormalizeQuery(q) == Trim(StripBlockComments(StripLineComments(CollapseSpaces(Trim(q)))))

\* q.toUpperCase().split(/\s+/): the words as runs of lexemes
RECURSIVE SplitWords(_, _)
SplitWords(q, word) ==
  IF q = <<>> THEN <<word>>
  ELSE IF IsSpace(Head(q)) THEN <<word>> \o SplitWords(TrimLeft(q), <<>>)
  ELSE SplitWords(Tail(q), Append(word, Upper(Head(q))))

Words(q) == SplitWords(q, <<>>)

forbiddenKeywords ==
  << <<"INSERT">>, <<"UPDATE">>, <<"DELETE">>, <<"REPLACE">>, <<"MERGE">>,
     <<"CREATE">>, <<"ALTER">>, <<"DROP">>, <<"TRUNCATE">>, <<"RENAME">>,
     <<"BEGIN">>, <<"COMMIT">>, <<"ROLLBACK">>, <<"START", " ", "TRANSACTION">>,
     <<"GRANT">>, <<"REVOKE">>, <<"SET", " ", "PASSWORD">>, <<"CREATE", " ", "USER">>,
     <<"DROP", " ", "USER">>,
     <<"LOAD", " ", "DATA">>, <<"SELECT", " ", "...", " ", "INTO", " ", "OUTFILE">>,
     <<"LOAD_FILE">>,
     <<"CALL">>, <<"EXECUTE">>, <<"EXEC">>,
     <<"FLUSH">>, <<"RESET">>, <<"KILL">>, <<"SHUTDOWN">> >>

allowedKeywords ==
  {"SELECT", "FROM", "WHERE", "JOIN", "INNER", "LEFT", "RIGHT", "FULL", "OUTER",
   "ORDER", "BY", "GROUP", "HAVING", "LIMIT", "OFFSET", "DISTINCT",
   "AS", "AND", "OR", "NOT", "IN", "EXISTS", "BETWEEN", "LIKE", "IS", "NULL",
   "COUNT", "SUM", "AVG", "MIN", "MAX", "CASE", "WHEN", "THEN", "ELSE", "END",
   "UNION", "INTERSECT", "EXCEPT", "WITH", "RECURSIVE",
   "SHOW", "DESCRIBE", "DESC", "EXPLAIN", "ANALYZE"}

\* q.toUpperCase().includes(keyword): a one-word keyword inside some lexeme, a
\* keyword of several words as consecutive lexemes
Includes(q, keyword) ==
  IF Len(keyword) = 1
  THEN \E i \in 1..Len(q) : LexemeIncludes(q[i], keyword[1])
  ELSE \E i \in 1..Len(q) :
         /\ i + Len(keyword) - 1 <= Len(q)
         /\ \A j \in 1..Len(keyword) : Upper(q[i + j - 1]) = keyword[j]

\* a case-insensitive regular expression that is one word
Matches(q, word) == \E i \in 1..Len(q) : LexemeIncludes(q[i], word)

\* /(first.*second)/i
MatchesInOrder(q, first, second) ==
  \E i \in 1..Len(q) : \E j \in (i + 1)..Len(q) :
    /\ LexemeIncludes(q[i], first)
    /\ LexemeIncludes(q[j], second)
    /\ \A k \in i..j : q[k] \notin {"\n", "\r"}

\* /first\s+second/i  and  /first\s*second/i
MatchesAdjacent(q, first, second, spaceNeeded) ==
  \E i \in 1..Len(q) : \E j \in (i + 1)..Len(q) :
    /\ LexemeIncludes(q[i], first)
    /\ Upper(q[j]) = second \/ LexemeIncludes(q[j], second)
    /\ \A k \in (i + 1)..(j - 1) : IsSpace(q[k])
    /\ spaceNeeded => j > i + 1

RECURSIVE ForbiddenErrors(_, _)
ForbiddenErrors(q, i) ==
  IF i > Len(forbiddenKeywords) THEN <<>>
  ELSE (IF Includes(q, forbiddenKeywords[i])
        THEN << <<"Forbidden keyword detected", forbiddenKeywords[i]>> >>
        ELSE <<>>) \o ForbiddenErrors(q, i + 1)

\* a check of the leading operation only
CheckFirstWordOnly(q) ==
  LET firstWord == Words(q)[1]
  IN  IF firstWord # <<>> /\ ~(Len(firstWord) = 1 /\ firstWord[1] \in allowedKeywords)
      THEN << <<"Operation is not allowed", firstWord>> >>
      ELSE <<>>

\* QueryValidator.checkForbiddenKeywords: the errors it appends
CheckForbiddenKeywords(q) ==
  LET firstWord == Words(q)[1]
  IN  ForbiddenErrors(q, 1) \o
      (IF firstWord # <<>> /\ ~(Len(firstWord) = 1 /\ firstWord[1] \in allowedKeywords)
       THEN << <<"Operation is not allowed", firstWord>> >>
       ELSE <<>>)

\* the suspiciousPatterns, in order: does pattern n match q
SuspiciousMatch(q, n) ==
  CASE n = 1 -> \E i \in 1..Len(q) : q[i] \in {"'", "--", "%27", "%2D%2D"}
    [] n = 2 -> \E i \in 1..Len(q) : q[i] \in {"\n", "\r"}
    [] n = 3 -> MatchesInOrder(q, "UNION", "SELECT")
    [] n = 4 -> MatchesInOrder(q, "CONCAT", "(")
    [] n = 5 -> Matches(q, "INFORMATION_SCHEMA")
    [] n = 6 -> Matches(q, "MYSQL.USER")
    [] n = 7 -> MatchesAdjacent(q, "INTO", "OUTFILE", TRUE)
    [] n = 8 -> Matches(q, "LOAD_FILE")
    [] n = 9 -> Matches(q, "@@")
    [] n = 10 -> Matches(q, "SCRIPT")
    [] n = 11 -> Matches(q, "JAVASCRIPT")
    [] n = 12 -> Matches(q, "VBSCRIPT")

NumSuspiciousPatterns == 12

\* pattern.source of pattern n, abridged
SuspiciousSource(n) ==
  <<"quote", "control", "union.*select", "concat.*\\(", "information_schema",
    "mysql\\.user", "into\\s+outfile", "load_file", "@@", "script", "javascript",
    "vbscript">>[n]

RECURSIVE SuspiciousErrors(_, _)
SuspiciousErrors(q, n) ==
  IF n > NumSuspiciousPatterns THEN <<>>
  ELSE (IF SuspiciousMatch(q, n) THEN << <<"Suspicious pattern detected", <<SuspiciousSource(n)>> >> >>
        ELSE <<>>) \o SuspiciousErrors(q, n + 1)

\* QueryValidator.checkSuspiciousPatterns: the errors it appends
CheckSuspiciousPatterns(q) == SuspiciousErrors(q, 1)

riskyFunctions ==
  <<"BENCHMARK", "SLEEP", "GET_LOCK", "RELEASE_LOCK", "LOAD_FILE", "UUID", "RAND",
    "CONNECTION_ID", "VERSION", "USER", "DATABASE", "SCHEMA">>

RECURSIVE RiskyWarnings(_, _)
RiskyWarnings(q, i) ==
  IF i > Len(riskyFunctions) THEN <<>>
  ELSE (IF \E k \in 1..(Len(q) - 1) :
             LexemeIncludes(q[k], riskyFunctions[i]) /\ q[k + 1] = "("
        THEN << <<"Risky function detected", <<riskyFunctions[i]>> >> >>
        ELSE <<>>) \o RiskyWarnings(q, i + 1)

\* QueryValidator.checkRiskyFunctions: the warnings it appends
CheckRiskyFunctions(q) == RiskyWarnings(q, 1)

\* the number of lexemes of q that are the word (a \bword\b match), or contain it
CountWord(q, word, whole) ==
  Cardinality({i \in 1..Len(q) :
                 IF whole THEN Upper(q[i]) = word ELSE LexemeIncludes(q[i], word)})

CountPair(q, first, second) ==
  Cardinality({i \in 1..Len(q) :
                 /\ Upper(q[i]) = first
                 /\ i + 2 <= Len(q) /\ q[i + 1] = " " /\ Upper(q[i + 2]) = second})

\* /\(\s*SELECT/gi
CountSubqueries(q) ==
  Cardinality({i \in 1..Len(q) :
                 /\ q[i] = "("
                 /\ \E j \in (i + 1)..Len(q) :
                      /\ LexemeIncludes(q[j], "SELECT")
                      /\ \A k \in (i + 1)..(j - 1) : IsSpace(q[k])})

\* QueryValidator.estimateComplexity
EstimateComplexity(q) ==
  LET score == CountWord(q, "JOIN", TRUE) * 2 + CountWord(q, "UNION", TRUE) * 3
               + CountSubqueries(q) * 4 + CountPair(q, "ORDER", "BY") * 1
               + CountPair(q, "GROUP", "BY") * 2 + CountWord(q, "HAVING", TRUE) * 2
  IN  IF score <= 3 THEN "low" ELSE IF score <= 8 THEN "medium" ELSE "high"

\* QueryValidator.checkComplexity: the warnings it appends (the table count of
\* the analysis stays below its threshold of 5 for the queries of this model)
CheckComplexity(q) ==
  (IF EstimateComplexity(q) = "high" THEN << <<"High complexity query detected", <<>> >> >>
   ELSE <<>>) \o
  (IF CountSubqueries(q) > 0 THEN << <<"Subqueries detected", <<>> >> >> ELSE <<>>)

\* /SELECT\s+\*\s+FROM/i
SelectStarFrom(q) ==
  \E i \in 1..Len(q) : \E j \in (i + 2)..Len(q) : \E k \in (j + 2)..Len(q) :
    /\ LexemeIncludes(q[i], "SELECT") /\ q[j] = "*" /\ LexemeIncludes(q[k], "FROM")
    /\ \A m \in ((i + 1)..(j - 1)) \cup ((j + 1)..(k - 1)) : IsSpace(q[m])

\* /LIKE\s*'%.*%'/i
LikeWildcard(q) ==
  \E i \in 1..Len(q) : \E j \in (i + 1)..Len(q) : \E k \in (j + 2)..Len(q) :
    /\ LexemeIncludes(q[i], "LIKE") /\ q[j] = "'" /\ q[j + 1] = "%"
    /\ \A m \in (i + 1)..(j - 1) : IsSpace(q[m])
    /\ k + 1 <= Len(q) /\ q[k] = "%" /\ q[k + 1] = "'"

\* QueryValidator.performAdvancedValidation: <<errors, warnings>> it appends
PerformAdvancedValidation(q) ==
  << IF (Matches(q, "DELETE") \/ Matches(q, "UPDATE")) /\ ~Matches(q, "WHERE")
     THEN << <<"DELETE/UPDATE without WHERE clause is not allowed", <<>> >> >>
     ELSE <<>>,
     (IF SelectStarFrom(q) /\ ~Matches(q, "LIMIT")
      THEN << <<"SELECT * without LIMIT may return large result sets", <<>> >> >>
      ELSE <<>>) \o
     (IF LikeWildcard(q)
      THEN << <<"LIKE with leading wildcard may impact performance", <<>> >> >>
      ELSE <<>>) \o
     (IF CountWord(q, "FROM", FALSE) > 1 /\ CountWord(q, "JOIN", FALSE) = 0
         /\ CountWord(q, "WHERE", FALSE) = 0
      THEN << <<"Potential cartesian product detected", <<>> >> >>
      ELSE <<>>) >>

\* QueryValidator.validateBasicInput: the error it reports, if any
ValidateBasicInput(q) ==
  IF q = <<>> THEN << <<"Query must be a non-empty string", <<>> >> >>
  ELSE IF QueryLength(q) > maxQueryLength
  THEN << <<"Query exceeds maximum length", <<>> >> >>
  ELSE IF Trim(q) = <<>> THEN << <<"Query cannot be empty or whitespace only", <<>> >> >>
  ELSE <<>>

\* QueryValidator.isOperationAllowed
IsOperationAllowed(operation) == Upper(operation) \in allowedKeywords

\* QueryValidator.validate.  isValid is cleared by validateBasicInput,
\* checkForbiddenKeywords and checkSuspiciousPatterns; performAdvancedValidation
\* appends its error without clearing it.
Validate(q) ==
  IF ValidateBasicInput(q) # <<>>
  THEN [isValid |-> FALSE, errors |-> ValidateBasicInput(q), warnings |-> <<>>,
        sanitized |-> FALSE, sanitizedQuery |-> <<>>]
  ELSE LET n == NormalizeQuery(q)
           clearing == CheckForbiddenKeywords(n) \o CheckSuspiciousPatterns(n)
       IN  [isValid |-> clearing = <<>>,
            errors |-> clearing \o PerformAdvancedValidation(n)[1],
            warnings |-> CheckRiskyFunctions(n) \o CheckComplexity(n)
                         \o PerformAdvancedValidation(n)[2],
            sanitized |-> TRUE,
            sanitizedQuery |-> n]

----------------------------------------------------------------------------
(* Adapter state *)

VARIABLES
  pool,             \* this.pool: "null" or "pool"
  isConnected,      \* connectionStatus.isConnected
  isShuttingDown,   \* this.isShuttingDown
  activeQueries,    \* connectionStatus.activeQueries
  metricsEnabled,   \* options.metricsEnabled
  metrics,          \* this.metrics
  pc,               \* per caller: the await it is suspended at, or "idle"
  req,              \* per caller: arguments of its pending query() and the
                    \*   adapter's counters as they were at its entry
  txn,              \* per caller: locals of its pending transaction()
  checkedOut,       \* connections the pool has handed out and not got back
  calls,            \* number of adapter calls started so far
  ret               \* the call that returned last, as its caller saw it

adapterVars == <<pool, isConnected, isShuttingDown, activeQueries, metricsEnabled,
                 metrics, pc, req, txn, checkedOut, calls, ret>>

\* DatabaseConnection and QueryExecutor, which the single-database server uses
VARIABLES
  dbPool,           \* DatabaseConnection.pool: "null" or "pool"
  dbStatus,         \* DatabaseConnection.connectionStatus
  dbPc,             \* the connect() / disconnect() in progress, or "idle"
  queryCache,       \* QueryExecutor.queryCache: its entries, one per key
  auditLogs,        \* QueryExecutor.auditLogs
  now,              \* Date.now()
  ticks,            \* steps the clock has made
  ePc,              \* per caller of executeQuery: "idle" or "racing"
  eReq,             \* per caller: locals of its pending executeQuery
  orphans,          \* statements still executing whose executeQuery timed out
  eCalls,           \* calls started so far
  eRet              \* the executeQuery that returned last, as its caller saw it

execVars == <<dbPool, dbStatus, dbPc, queryCache, auditLogs, now, ticks, ePc, eReq,
              orphans, eCalls, eRet>>

\* ConnectionManager and the multi-database server's tools over all its pools
VARIABLES
  connections,      \* ConnectionManager.connections: the names registered
  adapterState,     \* per configured pool: how far its adapter has been driven
  connectAllPc,     \* connectAll(): "idle", "pending", "resolved" or "rejected"
  connectTask,      \* per pool: its task inside connectAll's Promise.all
  disconnectAllPc,  \* disconnectAll(): "idle", "pending", "resolved" or "rejected"
  disconnectTask,   \* per pool: its task inside disconnectAll's Promise.all
  swept,            \* the entries disconnectAll() found when it was called
  exited,           \* process.exit() has run
  healthPc,         \* healthCheckAll(): "idle" or "pending"
  healthTask,       \* per pool: its task inside healthCheckAll's Promise.all
  checked,          \* the entries healthCheckAll() found when it was called
  healthRet,        \* what the last healthCheckAll() returned, or NoHealth
  crossPc,          \* cross_database_query: "idle" or "pending"
  crossItems,       \* its queries argument
  crossTask,        \* per item: its task inside the handler's Promise.all
  crossOrder,       \* the items in the order their adapter.query() settled
  crossRet,         \* what the tool call returned last
  toolCalls         \* tool calls started so far

managerVars == <<connections, adapterState, connectAllPc, connectTask, disconnectAllPc,
                 disconnectTask, swept, exited, healthPc, healthTask, checked,
                 healthRet, crossPc, crossItems, crossTask, crossOrder, crossRet,
                 toolCalls>>

\* SchemaCache
VARIABLES
  schemaCache,      \* SchemaCache.cache: its entries in insertion order
  schemaStats,      \* SchemaCache.stats: hits and misses
  sPc,              \* per caller: "idle", or "storing" after set()'s await
  sReq,             \* per caller: locals of its pending set()
  sRet,             \* the get() or invalidation that returned last, and its result
  sCalls,           \* set and invalidate calls started so far
  wPc,              \* warmup(): the await it is at, or "idle", "done", "failed"
  wTables,          \* warmup(): schema.tables still to warm
  wRet              \* warmup(): how it ended

schemaVars == <<schemaCache, schemaStats, sPc, sReq, sRet, sCalls, wPc, wTables, wRet>>

\* QueryValidator, applied to a query and then to what it returned
VARIABLES
  vQuery,           \* the query under validation
  vPc,              \* "idle", "validated" or "revalidated"
  vResult,          \* validate(vQuery)
  vAgain            \* validate(vResult.sanitizedQuery)

validatorVars == <<vQuery, vPc, vResult, vAgain>>

\* DatabaseAdapterFactory
VARIABLES
  detection         \* the config given to detectDatabaseType and what it returned

factoryVars == <<detection>>

NoReq == [sql |-> <<>>, tool |-> "none", activeQueries |-> 0, inFlight |-> 0]
NoTxn == [queries |-> <<>>, results |-> <<>>, log |-> <<>>, error |-> "none"]
\* what a listener reads from the adapter while emit() runs
NoSeen == [activeQueries |-> 0, queriesExecuted |-> 0]
NoRet == [op |-> "none", outcome |-> "none", event |-> "none", seen |-> NoSeen]

ZeroMetrics ==
  [queriesExecuted |-> 0, totalExecutionTime |-> 0,
   averageExecutionTime |-> [num |-> 0, den |-> 1],
   errorCount |-> 0,
   successRate |-> [num |-> 0, den |-> 1]]

\* A newly constructed adapter, or one whose first connect() has succeeded
AdapterInit ==
  /\ \E connected \in BOOLEAN :
       /\ pool = IF connected THEN "pool" ELSE "null"
       /\ isConnected = connected
  /\ isShuttingDown = FALSE
  /\ activeQueries = 0
  /\ metricsEnabled \in BOOLEAN
  /\ metrics = ZeroMetrics
  /\ pc = [p \in Callers |-> "idle"]
  /\ req = [p \in Callers |-> NoReq]
  /\ txn = [p \in Callers |-> NoTxn]
  /\ checkedOut = 0
  /\ calls = 0
  /\ ret = NoRet

\* statements of caller p's peers that the driver is executing right now
OthersInFlight(p) == Cardinality({q \in Callers \ {p} : pc[q] \in {"q_exec", "t_stmt"}})

\* caller p enters an adapter method
Enter(p) ==
  /\ pc[p] = "idle"
  /\ calls < MaxCalls
  /\ calls' = calls + 1

\* the method returns or throws to caller p: outcome, and the event it emitted
Return(p, op, outcome, event) ==
  /\ pc' = [pc EXCEPT ![p] = "idle"]
  /\ ret' = [op |-> op, outcome |-> outcome, event |-> event, seen |-> NoSeen]

\* query() returns or throws after emit(event), whose listeners ran when the
\* adapter's counters were as in seen
ReturnEmitted(p, outcome, event, seen) ==
  /\ pc' = [pc EXCEPT ![p] = "idle"]
  /\ ret' = [op |-> "query", outcome |-> outcome, event |-> event, seen |-> seen]

\* an updateMetrics that takes the average before it counts the statement
UpdatedMetricsStale(m, success, executionTime) ==
  IF ~metricsEnabled THEN m
  ELSE LET n == m.queriesExecuted + 1
           total == m.totalExecutionTime + executionTime
           errs == IF success THEN m.errorCount ELSE m.errorCount + 1
       IN  [queriesExecuted |-> n, totalExecutionTime |-> total,
            averageExecutionTime |-> [num |-> total,
                                      den |-> IF n > 1 THEN n - 1 ELSE 1],
            errorCount |-> errs,
            successRate |-> [num |-> (n - errs) * 100, den |-> n]]

\* updateMetrics(success, executionTime); averages and rates are kept as fractions
UpdatedMetrics(m, success, executionTime) ==
  IF ~metricsEnabled THEN m
  ELSE LET n == m.queriesExecuted + 1
           total == m.totalExecutionTime + executionTime
           errs == IF success THEN m.errorCount ELSE m.errorCount + 1
       IN  [queriesExecuted |-> n, totalExecutionTime |-> total,
            averageExecutionTime |-> [num |-> total, den |-> n],
            errorCount |-> errs,
            successRate |-> [num |-> (n - errs) * 100, den |-> n]]

----------------------------------------------------------------------------
(* connect() *)

\* connect(): already connected when a pool object exists; otherwise create the
\* pool and start the test (getConnection + ping, or connect + SELECT 1).  The two
\* awaits of the test touch no adapter state in between and are one pending step.
ConnectCall(p) ==
  /\ Enter(p)
  /\ IF pool # "null"
     THEN /\ Return(p, "connect", "already_connected", "none")
          /\ UNCHANGED pool
     ELSE /\ pool' = "pool"
          /\ pc' = [pc EXCEPT ![p] = "c_test"]
          /\ UNCHANGED ret
  /\ UNCHANGED <<isConnected, isShuttingDown, activeQueries, metricsEnabled, metrics,
                 req, txn, checkedOut>>
  /\ UNCHANGED <<execVars, managerVars, schemaVars, validatorVars, factoryVars>>

\* the test succeeded.  isConnected is set, then connectionCount is read through
\* this.pool: when a disconnect() has nulled the pool meanwhile that read throws
\* and the catch block runs.
ConnectTestOk(p) ==
  /\ pc[p] = "c_test"
  /\ IF pool = "null"
     THEN /\ isConnected' = FALSE
          /\ Return(p, "connect", "connect_failed", "disconnected")
     ELSE /\ isConnected' = TRUE
          /\ Return(p, "connect", "ok", "connected")
  /\ UNCHANGED <<pool, isShuttingDown, activeQueries, metricsEnabled, metrics, req, txn,
                 calls, checkedOut>>
  /\ UNCHANGED <<execVars, managerVars, schemaVars, validatorVars, factoryVars>>

\* the test failed: the catch block; this.pool keeps the pool object
ConnectTestFail(p) ==
  /\ pc[p] = "c_test"
  /\ isConnected' = FALSE
  /\ Return(p, "connect", "connect_failed", "disconnected")
  /\ UNCHANGED <<pool, isShuttingDown, activeQueries, metricsEnabled, metrics, req, txn,
                 calls, checkedOut>>
  /\ UNCHANGED <<execVars, managerVars, schemaVars, validatorVars, factoryVars>>

----------------------------------------------------------------------------
(* disconnect() *)

DisconnectCall(p) ==
  /\ Enter(p)
  /\ IF pool = "null"
     THEN /\ Return(p, "disconnect", "not_connected", "none")
          /\ UNCHANGED isShuttingDown
     ELSE /\ isShuttingDown' = TRUE
          /\ pc' = [pc EXCEPT ![p] = "d_end"]
          /\ UNCHANGED ret
  /\ UNCHANGED <<pool, isConnected, activeQueries, metricsEnabled, metrics, req, txn, checkedOut>>
  /\ UNCHANGED <<execVars, managerVars, schemaVars, validatorVars, factoryVars>>

\* pool.end() fulfilled
DisconnectEndOk(p) ==
  /\ pc[p] = "d_end"
  /\ pool' = "null"
  /\ isConnected' = FALSE
  /\ activeQueries' = 0
  /\ Return(p, "disconnect", "ok", "disconnected")
  /\ UNCHANGED <<isShuttingDown, metricsEnabled, metrics, req, txn, calls, checkedOut>>
  /\ UNCHANGED <<execVars, managerVars, schemaVars, validatorVars, factoryVars>>

\* pool.end() rejected: logged and rethrown
DisconnectEndFail(p) ==
  /\ pc[p] = "d_end"
  /\ Return(p, "disconnect", "error", "none")
  /\ UNCHANGED <<pool, isConnected, isShuttingDown, activeQueries, metricsEnabled,
                 metrics, req, txn, calls, checkedOut>>
  /\ UNCHANGED <<execVars, managerVars, schemaVars, validatorVars, factoryVars>>

----------------------------------------------------------------------------
(* query(sql, params) *)

\* query() up to its await of pool.execute / pool.query; tool names the MCP tool
\* handler that made the call ("none" for a direct call)
QueryCall(p, sql, tool) ==
  /\ Enter(p)
  /\ IF pool = "null"
     THEN /\ Return(p, "query", "not_connected", "none")
          /\ UNCHANGED <<activeQueries, req>>
     ELSE IF isShuttingDown
     THEN /\ Return(p, "query", "shutting_down", "none")
          /\ UNCHANGED <<activeQueries, req>>
     ELSE /\ req' = [req EXCEPT ![p] = [sql |-> sql, tool |-> tool,
                                        activeQueries |-> activeQueries,
                                        inFlight |-> OthersInFlight(p)]]
          /\ activeQueries' = activeQueries + 1
          /\ pc' = [pc EXCEPT ![p] = "q_exec"]
          /\ UNCHANGED ret
  /\ UNCHANGED <<pool, isConnected, isShuttingDown, metricsEnabled, metrics, txn, checkedOut>>
  /\ UNCHANGED <<execVars, managerVars, schemaVars, validatorVars, factoryVars>>

\* the statement succeeded: metrics, query_executed, and the finally block
QueryExecOk(p, executionTime) ==
  /\ pc[p] = "q_exec"
  /\ metrics' = UpdatedMetrics(metrics, TRUE, executionTime)
  /\ activeQueries' = activeQueries - 1
  /\ req' = [req EXCEPT ![p] = NoReq]
  /\ ReturnEmitted(p, "ok", "query_executed",
                   [activeQueries |-> activeQueries,
                    queriesExecuted |-> metrics'.queriesExecuted])
  /\ UNCHANGED <<pool, isConnected, isShuttingDown, metricsEnabled, txn, calls, checkedOut>>
  /\ UNCHANGED <<execVars, managerVars, schemaVars, validatorVars, factoryVars>>

\* the statement failed: metrics, query_failed, rethrow, and the finally block
QueryExecFail(p, executionTime) ==
  /\ pc[p] = "q_exec"
  /\ metrics' = UpdatedMetrics(metrics, FALSE, executionTime)
  /\ activeQueries' = activeQueries - 1
  /\ req' = [req EXCEPT ![p] = NoReq]
  /\ ReturnEmitted(p, "error", "query_failed",
                   [activeQueries |-> activeQueries,
                    queriesExecuted |-> metrics'.queriesExecuted])
  /\ UNCHANGED <<pool, isConnected, isShuttingDown, metricsEnabled, txn, calls, checkedOut>>
  /\ UNCHANGED <<execVars, managerVars, schemaVars, validatorVars, factoryVars>>

----------------------------------------------------------------------------
(* resetMetrics() *)

ResetMetrics(p) ==
  /\ Enter(p)
  /\ metrics' = ZeroMetrics
  /\ Return(p, "resetMetrics", "ok", "none")
  /\ UNCHANGED <<pool, isConnected, isShuttingDown, activeQueries, metricsEnabled, req,
                 txn, checkedOut>>
  /\ UNCHANGED <<execVars, managerVars, schemaVars, validatorVars, factoryVars>>

----------------------------------------------------------------------------
(* transaction(queries) *)

Cmd(kind, sql) == [kind |-> kind, sql |-> sql]
CmdBegin == Cmd("BEGIN", <<>>)
CmdCommit == Cmd("COMMIT", <<>>)
CmdRollback == Cmd("ROLLBACK", <<>>)

\* transaction() up to its await of pool.getConnection / pool.connect
TxCall(p, queries) ==
  /\ Enter(p)
  /\ IF pool = "null"
     THEN /\ Return(p, "transaction", "not_connected", "none")
          /\ UNCHANGED txn
     ELSE /\ txn' = [txn EXCEPT ![p] = [NoTxn EXCEPT !.queries = queries]]
          /\ pc' = [pc EXCEPT ![p] = "t_conn"]
          /\ UNCHANGED ret
  /\ UNCHANGED <<pool, isConnected, isShuttingDown, activeQueries, metricsEnabled,
                 metrics, req, checkedOut>>
  /\ UNCHANGED <<execVars, managerVars, schemaVars, validatorVars, factoryVars>>

\* the pool handed out a connection: BEGIN is sent on it
TxConnOk(p) ==
  /\ pc[p] = "t_conn"
  /\ checkedOut' = checkedOut + 1
  /\ txn' = [txn EXCEPT ![p].log = <<CmdBegin>>]
  /\ pc' = [pc EXCEPT ![p] = "t_begin"]
  /\ UNCHANGED <<pool, isConnected, isShuttingDown, activeQueries, metricsEnabled,
                 metrics, req, calls, ret>>
  /\ UNCHANGED <<execVars, managerVars, schemaVars, validatorVars, factoryVars>>

\* no connection could be acquired: the rejection leaves transaction() before its try
TxConnFail(p) ==
  /\ pc[p] = "t_conn"
  /\ txn' = [txn EXCEPT ![p] = NoTxn]
  /\ Return(p, "transaction", "error", "none")
  /\ UNCHANGED <<pool, isConnected, isShuttingDown, activeQueries, metricsEnabled,
                 metrics, req, calls, checkedOut>>
  /\ UNCHANGED <<execVars, managerVars, schemaVars, validatorVars, factoryVars>>

\* the catch block of transaction(): ROLLBACK is sent
TxCatch(p, t, error) ==
  /\ txn' = [txn EXCEPT ![p] = [t EXCEPT !.error = error,
                                         !.log = Append(t.log, CmdRollback)]]
  /\ pc' = [pc EXCEPT ![p] = "t_rollback"]

\* the loop of transaction() reaches statement i: it is sent, or COMMIT after the last
TxIssue(p, t, i) ==
  IF i <= Len(t.queries)
  THEN /\ txn' = [txn EXCEPT ![p] =
                    [t EXCEPT !.log = Append(t.log, Cmd("STMT", t.queries[i]))]]
       /\ pc' = [pc EXCEPT ![p] = "t_stmt"]
  ELSE /\ txn' = [txn EXCEPT ![p] = [t EXCEPT !.log = Append(t.log, CmdCommit)]]
       /\ pc' = [pc EXCEPT ![p] = "t_commit"]

TxBeginOk(p) ==
  /\ pc[p] = "t_begin"
  /\ TxIssue(p, txn[p], 1)
  /\ activeQueries' = IF Len(txn[p].queries) >= 1 THEN activeQueries + 1 ELSE activeQueries
  /\ UNCHANGED <<pool, isConnected, isShuttingDown, metricsEnabled, metrics, req, calls,
                 ret, checkedOut>>
  /\ UNCHANGED <<execVars, managerVars, schemaVars, validatorVars, factoryVars>>

TxBeginFail(p) ==
  /\ pc[p] = "t_begin"
  /\ TxCatch(p, txn[p], "begin")
  /\ UNCHANGED <<pool, isConnected, isShuttingDown, activeQueries, metricsEnabled,
                 metrics, req, calls, ret, checkedOut>>
  /\ UNCHANGED <<execVars, managerVars, schemaVars, validatorVars, factoryVars>>

\* a statement succeeded: its result is kept, metrics updated, activeQueries-- in the
\* inner finally; then the next statement (activeQueries++) or COMMIT
TxStmtOk(p, executionTime) ==
  /\ pc[p] = "t_stmt"
  /\ LET t == txn[p]
         i == Len(t.results) + 1
         kept == [t EXCEPT !.results = Append(t.results, t.queries[i])]
     IN  /\ TxIssue(p, kept, i + 1)
         /\ activeQueries' = IF i + 1 <= Len(t.queries) THEN (activeQueries - 1) + 1
                             ELSE activeQueries - 1
  /\ metrics' = UpdatedMetrics(metrics, TRUE, executionTime)
  /\ UNCHANGED <<pool, isConnected, isShuttingDown, metricsEnabled, req, calls, ret, checkedOut>>
  /\ UNCHANGED <<execVars, managerVars, schemaVars, validatorVars, factoryVars>>

\* a transaction() that notes a statement's failure and carries on with the loop
TxStmtFailContinue(p, executionTime) ==
  /\ pc[p] = "t_stmt"
  /\ LET t == txn[p]
         i == Len(SelectSeq(t.log, LAMBDA c : c.kind = "STMT"))
     IN  /\ TxIssue(p, [t EXCEPT !.error = "statement"], i + 1)
         /\ activeQueries' = IF i + 1 <= Len(t.queries) THEN (activeQueries - 1) + 1
                             ELSE activeQueries - 1
  /\ metrics' = UpdatedMetrics(metrics, FALSE, executionTime)
  /\ UNCHANGED <<pool, isConnected, isShuttingDown, metricsEnabled, req, calls, ret, checkedOut>>
  /\ UNCHANGED <<execVars, managerVars, schemaVars, validatorVars, factoryVars>>

\* a statement failed: metrics, rethrow through the inner finally into the catch
TxStmtFail(p, executionTime) ==
  /\ pc[p] = "t_stmt"
  /\ metrics' = UpdatedMetrics(metrics, FALSE, executionTime)
  /\ activeQueries' = activeQueries - 1
  /\ TxCatch(p, txn[p], "statement")
  /\ UNCHANGED <<pool, isConnected, isShuttingDown, metricsEnabled, req, calls, ret, checkedOut>>
  /\ UNCHANGED <<execVars, managerVars, schemaVars, validatorVars, factoryVars>>

\* the finally block of transaction(): connection.release(), then the outcome
\* reaches the caller
TxFinally(p, outcome) ==
  /\ checkedOut' = checkedOut - 1
  /\ txn' = [txn EXCEPT ![p] = NoTxn]
  /\ Return(p, "transaction", outcome, "none")

TxCommitOk(p) ==
  /\ pc[p] = "t_commit"
  /\ TxFinally(p, "committed")
  /\ UNCHANGED <<pool, isConnected, isShuttingDown, activeQueries, metricsEnabled,
                 metrics, req, calls>>
  /\ UNCHANGED <<execVars, managerVars, schemaVars, validatorVars, factoryVars>>

TxCommitFail(p) ==
  /\ pc[p] = "t_commit"
  /\ TxCatch(p, txn[p], "commit")
  /\ UNCHANGED <<pool, isConnected, isShuttingDown, activeQueries, metricsEnabled,
                 metrics, req, calls, ret, checkedOut>>
  /\ UNCHANGED <<execVars, managerVars, schemaVars, validatorVars, factoryVars>>

\* ROLLBACK succeeded: the caught error is rethrown through the finally block
TxRollbackOk(p) ==
  /\ pc[p] = "t_rollback"
  /\ TxFinally(p, "rolled_back")
  /\ UNCHANGED <<pool, isConnected, isShuttingDown, activeQueries, metricsEnabled,
                 metrics, req, calls>>
  /\ UNCHANGED <<execVars, managerVars, schemaVars, validatorVars, factoryVars>>

\* a transaction() whose failed ROLLBACK skips the finally block
TxRollbackFailNoRelease(p) ==
  /\ pc[p] = "t_rollback"
  /\ txn' = [txn EXCEPT ![p] = NoTxn]
  /\ Return(p, "transaction", "rollback_failed", "none")
  /\ UNCHANGED <<pool, isConnected, isShuttingDown, activeQueries, metricsEnabled,
                 metrics, req, calls, checkedOut>>
  /\ UNCHANGED <<execVars, managerVars, schemaVars, validatorVars, factoryVars>>

\* ROLLBACK failed: its error leaves the catch block through the finally block
TxRollbackFail(p) ==
  /\ pc[p] = "t_rollback"
  /\ TxFinally(p, "rollback_failed")
  /\ UNCHANGED <<pool, isConnected, isShuttingDown, activeQueries, metricsEnabled,
                 metrics, req, calls>>
  /\ UNCHANGED <<execVars, managerVars, schemaVars, validatorVars, factoryVars>>

----------------------------------------------------------------------------
(* The adapter under concurrent callers *)

\* Date.now() - startTime: no time at all, or the longest the model measures
ExecTimes == {0, MaxExecTime}
TxInputs == {[i \in 1..n |-> TxStatement(i)] : n \in 0..MaxTxLen}

AdapterNext ==
  \E p \in Callers :
    \/ ConnectCall(p)
    \/ ConnectTestOk(p)
    \/ ConnectTestFail(p)
    \/ DisconnectCall(p)
    \/ DisconnectEndOk(p)
    \/ DisconnectEndFail(p)
    \/ QueryCall(p, SqlSelectOne, "none")
    \/ \E t \in ExecTimes : QueryExecOk(p, t)
    \/ \E t \in ExecTimes : QueryExecFail(p, t)
    \/ \E qs \in TxInputs : TxCall(p, qs)
    \/ TxConnOk(p)
    \/ TxConnFail(p)
    \/ TxBeginOk(p)
    \/ TxBeginFail(p)
    \/ \E t \in ExecTimes : TxStmtOk(p, t)
    \/ \E t \in ExecTimes : TxStmtFail(p, t)
    \/ TxCommitOk(p)
    \/ TxCommitFail(p)
    \/ TxRollbackOk(p)
    \/ TxRollbackFail(p)
    \/ ResetMetrics(p)

----------------------------------------------------------------------------
(* MultiDatabaseMCPServer: the execute_query tool *)

\* the registry of the connection manager after connectAll(), and its default
ConnectionNames == {"u"}
defaultConnectionName == "u"

\* handleExecuteQuery(query, database, parameters), reached through the
\* CallToolRequestSchema handler, whose catch turns a throw into an error text
HandleExecuteQuery(p, query, database) ==
  LET dbName == IF database # "" THEN database ELSE defaultConnectionName
  IN  IF query = <<>>
      THEN /\ Enter(p)
           /\ Return(p, "execute_query", "Query is required", "none")
           /\ UNCHANGED <<pool, isConnected, isShuttingDown, activeQueries,
                          metricsEnabled, metrics, req, txn, checkedOut>>
           /\ UNCHANGED <<execVars, managerVars, schemaVars, validatorVars, factoryVars>>
      ELSE IF dbName \notin ConnectionNames
      THEN /\ Enter(p)
           /\ Return(p, "execute_query", "Database connection not found", "none")
           /\ UNCHANGED <<pool, isConnected, isShuttingDown, activeQueries,
                          metricsEnabled, metrics, req, txn, checkedOut>>
           /\ UNCHANGED <<execVars, managerVars, schemaVars, validatorVars, factoryVars>>
      ELSE QueryCall(p, query, "execute_query")

\* what the agent sends as the tool's arguments
ToolQueries == {<<>>, SqlSelectOne, SqlDeleteUsers}
ToolDatabases == {"", "u", "orders"}

\* the server once connectAll() has succeeded
ServerInit == AdapterInit /\ pool = "pool"

ServerNext ==
  \E p \in Callers :
    \/ \E query \in ToolQueries, database \in ToolDatabases :
         HandleExecuteQuery(p, query, database)
    \/ \E t \in ExecTimes : QueryExecOk(p, t)
    \/ \E t \in ExecTimes : QueryExecFail(p, t)
    \/ DisconnectCall(p)
    \/ DisconnectEndOk(p)
    \/ DisconnectEndFail(p)

----------------------------------------------------------------------------
(* DatabaseConnection and QueryExecutor state *)

MaxRows == 2         \* rows of one driver result
MaxTicks == 1        \* steps of the clock in one behaviour

maxExecutionTime == 30000   \* securityConfig.maxExecutionTime
maxResultRows == 10000      \* securityConfig.maxResultRows
cacheTTL == 300000          \* QueryExecutor.cacheTTL, 5 * 60 * 1000
maxCachedRowCount == 1000   \* cacheResult: largest rowCount that is cached
maxCacheSize == 100         \* cacheResult: size above which cleanCache() runs
maxAuditLogs == 1000        \* logAudit: entries kept in memory

\* QueryOptions; 0 stands for an absent number, which || replaces like 0
DefaultOptions == [timeout |-> 0, maxRows |-> 0, enableAudit |-> TRUE, dryRun |-> FALSE]

NoResult ==
  [rows |-> <<>>, rowCount |-> 0, executionTime |-> 0, truncated |-> FALSE,
   totalRows |-> 0, metadata |-> FALSE, cached |-> FALSE, cacheAge |-> 0,
   dryRun |-> FALSE]

NoEReq ==
  [query |-> <<>>, sql |-> <<>>, cacheKey |-> <<>>, options |-> DefaultOptions,
   startTime |-> 0, activeQueries |-> 0, inFlight |-> 0]

NoERet ==
  [op |-> "none", query |-> <<>>, outcome |-> "none", error |-> "none",
   result |-> NoResult]

\* statements DatabaseConnection.query has handed to the driver and not got back
StatementsInFlight == Cardinality({c \in Callers : ePc[c] = "racing"}) + orphans

\* a constructed executor over a connection that is new or already connected
ExecInit ==
  /\ \E connected \in BOOLEAN :
       /\ dbPool = IF connected THEN "pool" ELSE "null"
       /\ dbStatus = [isConnected |-> connected, activeQueries |-> 0]
  /\ dbPc = "idle"
  /\ queryCache = {}
  /\ auditLogs = << >>
  /\ now = 0
  /\ ticks = 0
  /\ ePc = [c \in Callers |-> "idle"]
  /\ eReq = [c \in Callers |-> NoEReq]
  /\ orphans = 0
  /\ eCalls = 0
  /\ eRet = NoERet

----------------------------------------------------------------------------
(* QueryExecutor helpers *)

\* String.prototype.toLowerCase on one lexeme
Lower(x) ==
  CASE x = "SELECT" -> "select"
    [] x = "DELETE" -> "delete"
    [] x = "FROM" -> "from"
    [] x = "WHERE" -> "where"
    [] x = "Users" -> "users"
    [] x = "LIMIT" -> "limit"
    [] x = "NOW" -> "now"
    [] OTHER -> x

\* generateCacheKey.  Its pattern /\\s+/ matches a backslash followed by the
\* letter s, not white space: white space inside the query is kept as it is.
GenerateCacheKey(query, parameters) ==
  LET replaced == [i \in 1..Len(query) |->
                     IF query[i] = "\\s" THEN " " ELSE query[i]]
      trimmed == Trim(replaced)
  IN  << [i \in 1..Len(trimmed) |-> Lower(trimmed[i])], parameters >>

CacheEntries(cache, cacheKey) == {e \in cache : e.key = cacheKey}

Expired(e, time) == time - e.timestamp > e.ttl

\* getCachedResult: the cache it leaves (an expired entry is deleted), and the
\* copy it returns on a hit
GetCachedResultAnyAge(cache, cacheKey, time) ==
  IF CacheEntries(cache, cacheKey) = {}
  THEN [cache |-> cache, hit |-> FALSE, result |-> NoResult]
  ELSE LET entry == CHOOSE e \in CacheEntries(cache, cacheKey) : TRUE
       IN  [cache |-> cache, hit |-> TRUE,
            result |-> [entry.result EXCEPT !.cached = TRUE,
                                            !.cacheAge = time - entry.timestamp]]

GetCachedResult(cache, cacheKey, time) ==
  IF CacheEntries(cache, cacheKey) = {}
  THEN [cache |-> cache, hit |-> FALSE, result |-> NoResult]
  ELSE LET entry == CHOOSE e \in CacheEntries(cache, cacheKey) : TRUE
       IN  IF Expired(entry, time)
           THEN [cache |-> cache \ {entry}, hit |-> FALSE, result |-> NoResult]
           ELSE [cache |-> cache, hit |-> TRUE,
                 result |-> [entry.result EXCEPT !.cached = TRUE,
                                                 !.cacheAge = time - entry.timestamp]]

\* cleanCache
CleanCache(cache, time) == {e \in cache : ~Expired(e, time)}

\* cacheResult
CacheResultNever(cache, cacheKey, result, time) == cache

CacheResult(cache, cacheKey, result, time) ==
  IF result.rowCount <= maxCachedRowCount /\ ~result.metadata
  THEN LET set == (cache \ CacheEntries(cache, cacheKey))
                    \cup {[key |-> cacheKey, result |-> result,
                           timestamp |-> time, ttl |-> cacheTTL]}
       IN  IF Cardinality(set) > maxCacheSize THEN CleanCache(set, time) ELSE set
  ELSE cache

\* shouldCacheQuery
ShouldCacheQuery(query) ==
  LET q == Trim(query)
  IN  /\ q # <<>>
      /\ Upper(q[1]) = "SELECT"
      /\ ~\E i \in 1..(Len(q) - 2) :
            /\ Upper(q[i]) \in {"NOW", "RAND", "UUID", "CONNECTION_ID"}
            /\ q[i + 1] = "("
            /\ q[i + 2] = ")"

\* logAudit.  The queries of the model are shorter than the 1000 characters
\* the entry keeps.
LogAuditKeepOldest(logs, query, executionTime, rowCount, success, errorMessage, time) ==
  LET pushed == Append(logs, [timestamp |-> time, query |-> query,
                              executionTime |-> executionTime, rowCount |-> rowCount,
                              success |-> success, errorMessage |-> errorMessage])
  IN  IF Len(pushed) > maxAuditLogs
      THEN SubSeq(pushed, 1, maxAuditLogs)
      ELSE pushed

LogAudit(logs, query, executionTime, rowCount, success, errorMessage, time) ==
  LET pushed == Append(logs, [timestamp |-> time, query |-> query,
                              executionTime |-> executionTime, rowCount |-> rowCount,
                              success |-> success, errorMessage |-> errorMessage])
  IN  IF Len(pushed) > maxAuditLogs
      THEN SubSeq(pushed, Len(pushed) - maxAuditLogs + 1, Len(pushed))
      ELSE pushed

\* executeQueryInternal on what the driver returned: an array of rows, or a
\* packet that is not an array; executeWithTimeout then sets executionTime
InternalResult(results, maxRows, executionTime) ==
  IF results.isArray
  THEN [NoResult EXCEPT
          !.rows = SubSeq(results.rows, 1,
                          IF Len(results.rows) < maxRows THEN Len(results.rows)
                          ELSE maxRows),
          !.rowCount = Len(results.rows),
          !.executionTime = executionTime,
          !.truncated = Len(results.rows) > maxRows,
          !.totalRows = Len(results.rows)]
  ELSE [NoResult EXCEPT !.rowCount = results.affectedRows,
                        !.executionTime = executionTime,
                        !.metadata = TRUE]

\* the queries callers pass to executeQuery, and validator.validate on each
ExecQueries == {SqlSelectOne, SqlDeleteUsers}
\* two statements that differ in the letter case of one identifier
KeyQueries == {<<"SELECT", " ", "1", " ", "FROM", " ", "Users">>,
               <<"SELECT", " ", "1", " ", "FROM", " ", "users">>}
Validated == [query \in ExecQueries \cup KeyQueries |-> Validate(query)]

\* the queries among them that validator.validate rejects
RejectedQueries == {query \in ExecQueries : ~Validate(query).isValid}

\* an executeQuery that never looks at validation.isValid
AdmitsAll(validation) == TRUE

\* the check of validation.isValid in executeQuery
Admits(validation) == validation.isValid

----------------------------------------------------------------------------
(* DatabaseConnection.connect() and disconnect() *)

\* connect() up to its await of testConnection(): a new pool replaces this.pool
DbConnectCall ==
  /\ dbPc = "idle"
  /\ eCalls < MaxCalls
  /\ eCalls' = eCalls + 1
  /\ dbPool' = "pool"
  /\ dbPc' = "connecting"
  /\ UNCHANGED <<dbStatus, queryCache, auditLogs, now, ticks, ePc, eReq, orphans, eRet>>
  /\ UNCHANGED <<adapterVars, managerVars, schemaVars, validatorVars, factoryVars>>

\* the test succeeded: connectionStatus is replaced by a new object
DbConnectOk ==
  /\ dbPc = "connecting"
  /\ dbStatus' = [isConnected |-> TRUE, activeQueries |-> 0]
  /\ dbPc' = "idle"
  /\ UNCHANGED <<dbPool, queryCache, auditLogs, now, ticks, ePc, eReq, orphans, eCalls,
                 eRet>>
  /\ UNCHANGED <<adapterVars, managerVars, schemaVars, validatorVars, factoryVars>>

\* the test failed: the catch block
DbConnectFail ==
  /\ dbPc = "connecting"
  /\ dbStatus' = [dbStatus EXCEPT !.isConnected = FALSE]
  /\ dbPc' = "idle"
  /\ UNCHANGED <<dbPool, queryCache, auditLogs, now, ticks, ePc, eReq, orphans, eCalls,
                 eRet>>
  /\ UNCHANGED <<adapterVars, managerVars, schemaVars, validatorVars, factoryVars>>

\* disconnect() up to its await of pool.end(); nothing to do without a pool
DbDisconnectCall ==
  /\ dbPc = "idle"
  /\ eCalls < MaxCalls
  /\ eCalls' = eCalls + 1
  /\ dbPc' = IF dbPool = "null" THEN "idle" ELSE "disconnecting"
  /\ UNCHANGED <<dbPool, dbStatus, queryCache, auditLogs, now, ticks, ePc, eReq, orphans,
                 eRet>>
  /\ UNCHANGED <<adapterVars, managerVars, schemaVars, validatorVars, factoryVars>>

DbDisconnectOk ==
  /\ dbPc = "disconnecting"
  /\ dbStatus' = [dbStatus EXCEPT !.isConnected = FALSE]
  /\ dbPool' = "null"
  /\ dbPc' = "idle"
  /\ UNCHANGED <<queryCache, auditLogs, now, ticks, ePc, eReq, orphans, eCalls, eRet>>
  /\ UNCHANGED <<adapterVars, managerVars, schemaVars, validatorVars, factoryVars>>

\* pool.end() rejected: rethrown, the finally block still clears this.pool
DbDisconnectFail ==
  /\ dbPc = "disconnecting"
  /\ dbPool' = "null"
  /\ dbPc' = "idle"
  /\ UNCHANGED <<dbStatus, queryCache, auditLogs, now, ticks, ePc, eReq, orphans, eCalls,
                 eRet>>
  /\ UNCHANGED <<adapterVars, managerVars, schemaVars, validatorVars, factoryVars>>

----------------------------------------------------------------------------
(* QueryExecutor.executeQuery(query, parameters, options) *)

\* the catch block of executeQuery: audit entry unless enableAudit is false,
\* then the error reaches the caller
Caught(c, query, options, startTime, errorMessage) ==
  /\ auditLogs' = IF options.enableAudit
                  THEN LogAudit(auditLogs, query, now - startTime, 0, FALSE,
                                errorMessage, now)
                  ELSE auditLogs
  /\ ePc' = [ePc EXCEPT ![c] = "idle"]
  /\ eReq' = [eReq EXCEPT ![c] = NoEReq]
  /\ eRet' = [op |-> "executeQuery", query |-> query, outcome |-> "failed",
              error |-> errorMessage, result |-> NoResult]

\* executeQuery returns result to caller c
Returned(c, query, result) ==
  /\ ePc' = [ePc EXCEPT ![c] = "idle"]
  /\ eReq' = [eReq EXCEPT ![c] = NoEReq]
  /\ eRet' = [op |-> "executeQuery", query |-> query, outcome |-> "ok",
              error |-> "none", result |-> result]

\* executeQuery up to its await of Promise.race in executeWithTimeout:
\* validation, cache lookup, dry run, and DatabaseConnection.query up to its
\* await of pool.execute
ExecuteQuery(c, query, parameters, options) ==
  /\ ePc[c] = "idle"
  /\ eCalls < MaxCalls
  /\ eCalls' = eCalls + 1
  /\ LET validation == Validated[query]
         cacheKey == GenerateCacheKey(query, parameters)
         cached == GetCachedResult(queryCache, cacheKey, now)
     IN  IF ~Admits(validation)
         THEN /\ Caught(c, query, options, now, "Query validation failed")
              /\ UNCHANGED <<queryCache, dbStatus>>
         ELSE IF cached.hit /\ ~options.dryRun
         THEN /\ Returned(c, query, cached.result)
              /\ queryCache' = cached.cache
              /\ UNCHANGED <<auditLogs, dbStatus>>
         ELSE IF options.dryRun
         THEN /\ Returned(c, query, [NoResult EXCEPT !.dryRun = TRUE])
              /\ queryCache' = cached.cache
              /\ UNCHANGED <<auditLogs, dbStatus>>
         ELSE IF dbPool = "null"
         THEN /\ Caught(c, query, options, now, "Database not connected")
              /\ queryCache' = cached.cache
              /\ UNCHANGED dbStatus
         ELSE /\ dbStatus' = [dbStatus EXCEPT !.activeQueries = @ + 1]
              /\ eReq' = [eReq EXCEPT ![c] =
                            [query |-> query,
                             sql |-> IF validation.sanitized
                                     THEN validation.sanitizedQuery ELSE query,
                             cacheKey |-> cacheKey, options |-> options,
                             startTime |-> now,
                             activeQueries |-> dbStatus.activeQueries,
                             inFlight |-> StatementsInFlight]]
              /\ ePc' = [ePc EXCEPT ![c] = "racing"]
              /\ queryCache' = cached.cache
              /\ UNCHANGED <<auditLogs, eRet>>
  /\ UNCHANGED <<dbPool, dbPc, now, ticks, orphans>>
  /\ UNCHANGED <<adapterVars, managerVars, schemaVars, validatorVars, factoryVars>>

\* the statement settled first and succeeded: the finally block of
\* DatabaseConnection.query, then the result is built, cached, audited, returned
DbQueryOk(c, results) ==
  /\ ePc[c] = "racing"
  /\ dbStatus' = [dbStatus EXCEPT !.activeQueries = @ - 1]
  /\ LET r == eReq[c]
         maxRows == IF r.options.maxRows # 0 THEN r.options.maxRows ELSE maxResultRows
         result == InternalResult(results, maxRows, now - r.startTime)
     IN  /\ queryCache' = IF ShouldCacheQuery(r.query)
                          THEN CacheResult(queryCache, r.cacheKey, result, now)
                          ELSE queryCache
         /\ auditLogs' = IF r.options.enableAudit
                         THEN LogAudit(auditLogs, r.query, result.executionTime,
                                       result.rowCount, TRUE, "none", now)
                         ELSE auditLogs
         /\ Returned(c, r.query, result)
  /\ UNCHANGED <<dbPool, dbPc, now, ticks, orphans, eCalls>>
  /\ UNCHANGED <<adapterVars, managerVars, schemaVars, validatorVars, factoryVars>>

\* the statement settled first and failed
DbQueryFail(c) ==
  /\ ePc[c] = "racing"
  /\ dbStatus' = [dbStatus EXCEPT !.activeQueries = @ - 1]
  /\ Caught(c, eReq[c].query, eReq[c].options, eReq[c].startTime, "driver error")
  /\ UNCHANGED <<dbPool, dbPc, queryCache, now, ticks, orphans, eCalls>>
  /\ UNCHANGED <<adapterVars, managerVars, schemaVars, validatorVars, factoryVars>>

\* the timer of executeWithTimeout fired first: the race rejects, the statement
\* is left executing
TimeoutCaching(c) ==
  /\ ePc[c] = "racing"
  /\ LET r == eReq[c]
         timeout == IF r.options.timeout # 0 THEN r.options.timeout
                    ELSE maxExecutionTime
     IN  /\ now - r.startTime >= timeout
         /\ queryCache' = CacheResult(queryCache, r.cacheKey, NoResult, now)
         /\ Caught(c, r.query, r.options, r.startTime, "Query timeout")
  /\ orphans' = orphans + 1
  /\ UNCHANGED <<dbPool, dbStatus, dbPc, now, ticks, eCalls>>
  /\ UNCHANGED <<adapterVars, managerVars, schemaVars, validatorVars, factoryVars>>

Timeout(c) ==
  /\ ePc[c] = "racing"
  /\ LET r == eReq[c]
         timeout == IF r.options.timeout # 0 THEN r.options.timeout
                    ELSE maxExecutionTime
     IN  /\ now - r.startTime >= timeout
         /\ Caught(c, r.query, r.options, r.startTime, "Query timeout")
  /\ orphans' = orphans + 1
  /\ UNCHANGED <<dbPool, dbStatus, dbPc, queryCache, now, ticks, eCalls>>
  /\ UNCHANGED <<adapterVars, managerVars, schemaVars, validatorVars, factoryVars>>

\* a statement whose call has timed out settles: the finally block of
\* DatabaseConnection.query; nobody awaits what executeQueryInternal builds
OrphanSettle ==
  /\ orphans > 0
  /\ orphans' = orphans - 1
  /\ dbStatus' = [dbStatus EXCEPT !.activeQueries = @ - 1]
  /\ UNCHANGED <<dbPool, dbPc, queryCache, auditLogs, now, ticks, ePc, eReq, eCalls, eRet>>
  /\ UNCHANGED <<adapterVars, managerVars, schemaVars, validatorVars, factoryVars>>

\* the clock advances
Tick(dt) ==
  /\ ticks < MaxTicks
  /\ ticks' = ticks + 1
  /\ now' = now + dt
  /\ UNCHANGED <<dbPool, dbStatus, dbPc, queryCache, auditLogs, ePc, eReq, orphans,
                 eCalls, eRet>>
  /\ UNCHANGED <<adapterVars, managerVars, schemaVars, validatorVars, factoryVars>>

\* inputs of the executor
ExecOptions ==
  {DefaultOptions,
   [DefaultOptions EXCEPT !.timeout = 1],
   [DefaultOptions EXCEPT !.maxRows = 1],
   [DefaultOptions EXCEPT !.enableAudit = FALSE],
   [DefaultOptions EXCEPT !.dryRun = TRUE]}
DriverResults ==
  {[isArray |-> TRUE, rows |-> [i \in 1..n |-> i], affectedRows |-> 0] : n \in {0, MaxRows}}
    \cup {[isArray |-> FALSE, rows |-> <<>>, affectedRows |-> 0]}
\* a millisecond, or long enough for a cache entry to expire
TickSteps == {1, cacheTTL + 1}
\* the clock of the executor under connect and disconnect: entries expire in
\* the specification of the query cache
ExecTickSteps == {1}

ExecNext ==
  \/ DbConnectCall
  \/ DbConnectOk
  \/ DbConnectFail
  \/ DbDisconnectCall
  \/ DbDisconnectOk
  \/ DbDisconnectFail
  \/ \E c \in Callers, query \in ExecQueries, options \in ExecOptions :
       ExecuteQuery(c, query, <<>>, options)
  \/ \E c \in Callers, results \in DriverResults : DbQueryOk(c, results)
  \/ \E c \in Callers : DbQueryFail(c)
  \/ \E c \in Callers : Timeout(c)
  \/ OrphanSettle
  \/ \E dt \in ExecTickSteps : Tick(dt)

----------------------------------------------------------------------------
(* DatabaseConnectionManager: connectAll, disconnectAll, healthCheckAll, and *)
(* the process around them: main() exits when start() fails or stop() ends   *)

NumPools == 2

\* Object.keys(config.connections)
PoolNames == {ToString(i) : i \in 1..NumPools}

NoHealthTask == [state |-> "none", isHealthy |-> FALSE, responseTime |-> 0, error |-> ""]
NoHealthRet == [returned |-> FALSE, entries |-> {}]
NoSummary == [totalQueries |-> 0, totalRows |-> 0]
NoCrossRet == [returned |-> FALSE, isError |-> FALSE, results |-> <<>>, summary |-> NoSummary]

ManagerInit ==
  /\ connections = {}
  /\ adapterState = [n \in PoolNames |-> "none"]
  /\ connectAllPc = "idle"
  /\ connectTask = [n \in PoolNames |-> "none"]
  /\ disconnectAllPc = "idle"
  /\ disconnectTask = [n \in PoolNames |-> "none"]
  /\ swept = {}
  /\ exited = FALSE
  /\ healthPc = "idle"
  /\ healthTask = [n \in PoolNames |-> NoHealthTask]
  /\ checked = {}
  /\ healthRet = NoHealthRet
  /\ crossPc = "idle"
  /\ crossItems = <<>>
  /\ crossTask = <<>>
  /\ crossOrder = <<>>
  /\ crossRet = NoCrossRet
  /\ toolCalls = 0

healthVars == <<healthPc, healthTask, checked, healthRet>>
crossVars == <<crossPc, crossItems, crossTask, crossOrder, crossRet>>

\* main() calls start(), which calls connectAll(): one task per configured pool,
\* each creating its adapter and calling connect() before the first await
ConnectAllCall ==
  /\ ~exited
  /\ connectAllPc = "idle"
  /\ connectAllPc' = "pending"
  /\ connectTask' = [n \in PoolNames |-> "pending"]
  /\ adapterState' = [n \in PoolNames |-> "connecting"]
  /\ UNCHANGED <<connections, disconnectAllPc, disconnectTask, swept, exited, toolCalls>>
  /\ UNCHANGED <<healthVars, crossVars, adapterVars, execVars, schemaVars, validatorVars, factoryVars>>

\* Promise.all resolves when every task has
AllSettled(task, names) == \A n \in names : task[n] \notin {"pending"}

\* adapter.connect() of pool n resolves: the task registers the adapter
ConnectOkUnregistered(n) ==
  /\ ~exited
  /\ connectTask[n] = "pending"
  /\ adapterState' = [adapterState EXCEPT ![n] = "connected"]
  /\ UNCHANGED connections
  /\ connectTask' = [connectTask EXCEPT ![n] = "done"]
  /\ connectAllPc' = IF connectAllPc = "pending" /\ AllSettled(connectTask', PoolNames)
                     THEN "resolved"
                     ELSE connectAllPc
  /\ UNCHANGED <<disconnectAllPc, disconnectTask, swept, exited, toolCalls>>
  /\ UNCHANGED <<healthVars, crossVars, adapterVars, execVars, schemaVars, validatorVars, factoryVars>>

ConnectOk(n) ==
  /\ ~exited
  /\ connectTask[n] = "pending"
  /\ adapterState' = [adapterState EXCEPT ![n] = "connected"]
  /\ connections' = connections \cup {n}
  /\ connectTask' = [connectTask EXCEPT ![n] = "done"]
  /\ connectAllPc' = IF connectAllPc = "pending" /\ AllSettled(connectTask', PoolNames)
                     THEN "resolved"
                     ELSE connectAllPc
  /\ UNCHANGED <<disconnectAllPc, disconnectTask, swept, exited, toolCalls>>
  /\ UNCHANGED <<healthVars, crossVars, adapterVars, execVars, schemaVars, validatorVars, factoryVars>>

\* adapter.connect() of pool n rejects: the task rethrows, Promise.all rejects,
\* start() rethrows and main() exits
ConnectFail(n) ==
  /\ ~exited
  /\ connectTask[n] = "pending"
  /\ adapterState' = [adapterState EXCEPT ![n] = "connect_failed"]
  /\ connectTask' = [connectTask EXCEPT ![n] = "failed"]
  /\ connectAllPc' = "rejected"
  /\ exited' = TRUE
  /\ UNCHANGED <<connections, disconnectAllPc, disconnectTask, swept, toolCalls>>
  /\ UNCHANGED <<healthVars, crossVars, adapterVars, execVars, schemaVars, validatorVars, factoryVars>>

\* what follows disconnectAll's Promise.all: the registry is cleared, stop()
\* returns and gracefulShutdown exits
SweepDone(task, names) ==
  IF AllSettled(task, names)
  THEN /\ connections' = {}
       /\ disconnectAllPc' = "resolved"
       /\ exited' = TRUE
  ELSE /\ disconnectAllPc' = "pending"
       /\ UNCHANGED <<connections, exited>>

\* SIGINT or SIGTERM once main() has called start(): stop() calls
\* disconnectAll(), which calls disconnect() on every registered adapter
DisconnectAllCall ==
  /\ ~exited
  /\ connectAllPc # "idle"
  /\ disconnectAllPc = "idle"
  /\ swept' = connections
  /\ disconnectTask' = [n \in PoolNames |-> IF n \in connections THEN "pending" ELSE "none"]
  /\ adapterState' = [n \in PoolNames |->
                        IF n \in connections THEN "disconnecting" ELSE adapterState[n]]
  /\ SweepDone(disconnectTask', connections)
  /\ UNCHANGED <<connectAllPc, connectTask, toolCalls>>
  /\ UNCHANGED <<healthVars, crossVars, adapterVars, execVars, schemaVars, validatorVars, factoryVars>>

\* adapter.disconnect() of pool n resolves
DisconnectOk(n) ==
  /\ ~exited
  /\ disconnectTask[n] = "pending"
  /\ adapterState' = [adapterState EXCEPT ![n] = "disconnected"]
  /\ disconnectTask' = [disconnectTask EXCEPT ![n] = "done"]
  /\ SweepDone(disconnectTask', swept)
  /\ UNCHANGED <<connectAllPc, connectTask, swept, toolCalls>>
  /\ UNCHANGED <<healthVars, crossVars, adapterVars, execVars, schemaVars, validatorVars, factoryVars>>

\* adapter.disconnect() of pool n rejects: the task's catch logs it
DisconnectFailAborts(n) ==
  /\ ~exited
  /\ disconnectTask[n] = "pending"
  /\ adapterState' = [adapterState EXCEPT ![n] = "disconnect_failed"]
  /\ disconnectTask' = [disconnectTask EXCEPT ![n] = "done"]
  /\ disconnectAllPc' = "rejected"
  /\ exited' = TRUE
  /\ UNCHANGED <<connections, connectAllPc, connectTask, swept, toolCalls>>
  /\ UNCHANGED <<healthVars, crossVars, adapterVars, execVars, schemaVars, validatorVars, factoryVars>>

DisconnectFail(n) ==
  /\ ~exited
  /\ disconnectTask[n] = "pending"
  /\ adapterState' = [adapterState EXCEPT ![n] = "disconnect_failed"]
  /\ disconnectTask' = [disconnectTask EXCEPT ![n] = "done"]
  /\ SweepDone(disconnectTask', swept)
  /\ UNCHANGED <<connectAllPc, connectTask, swept, toolCalls>>
  /\ UNCHANGED <<healthVars, crossVars, adapterVars, execVars, schemaVars, validatorVars, factoryVars>>

\* the transport is connected once connectAll() has resolved: tools are served
Serving == ~exited /\ connectAllPc = "resolved"

\* the entry healthCheckAll() makes of one task: the fields of the status its
\* adapter returned, or the message of what it raised
HealthEntryNoError(name, task) ==
  [name |-> name, isHealthy |-> task.isHealthy, responseTime |-> task.responseTime,
   error |-> IF task.state = "returned" THEN task.error ELSE ""]

HealthEntry(name, task) ==
  IF task.state = "returned"
  THEN [name |-> name, isHealthy |-> task.isHealthy,
        responseTime |-> task.responseTime, error |-> task.error]
  ELSE [name |-> name, isHealthy |-> FALSE, responseTime |-> 0, error |-> task.error]

connectVars == <<connections, adapterState, connectAllPc, connectTask, disconnectAllPc,
                 disconnectTask, swept, exited>>

\* the database_health_check tool without a database: healthCheckAll() calls
\* healthCheck() on every registered adapter
HealthDone(task, names) ==
  IF \A n \in names : task[n].state # "pending"
  THEN /\ healthPc' = "idle"
       /\ healthRet' = [returned |-> TRUE,
                        entries |-> {HealthEntry(n, task[n]) : n \in names}]
  ELSE /\ healthPc' = "pending"
       /\ healthRet' = NoHealthRet

HealthCheckAllCall ==
  /\ Serving
  /\ healthPc = "idle"
  /\ toolCalls < MaxCalls
  /\ toolCalls' = toolCalls + 1
  /\ checked' = connections
  /\ healthTask' = [n \in PoolNames |->
                      IF n \in connections
                      THEN [NoHealthTask EXCEPT !.state = "pending"]
                      ELSE NoHealthTask]
  /\ HealthDone(healthTask', connections)
  /\ UNCHANGED <<connectVars, crossVars, adapterVars, execVars, schemaVars, validatorVars, factoryVars>>

\* adapter.healthCheck() of pool n returns its HealthStatus
HealthReturns(n, health) ==
  /\ ~exited
  /\ healthTask[n].state = "pending"
  /\ health.isHealthy => adapterState[n] # "disconnected"
  /\ healthTask' = [healthTask EXCEPT ![n] =
                      [state |-> "returned", isHealthy |-> health.isHealthy,
                       responseTime |-> health.responseTime, error |-> health.error]]
  /\ HealthDone(healthTask', checked)
  /\ UNCHANGED <<checked, toolCalls, connectVars, crossVars, adapterVars, execVars, schemaVars, validatorVars, factoryVars>>

\* adapter.healthCheck() of pool n raises
HealthRaises(n, message) ==
  /\ ~exited
  /\ healthTask[n].state = "pending"
  /\ healthTask' = [healthTask EXCEPT ![n] =
                      [NoHealthTask EXCEPT !.state = "raised", !.error = message]]
  /\ HealthDone(healthTask', checked)
  /\ UNCHANGED <<checked, toolCalls, connectVars, crossVars, adapterVars, execVars, schemaVars, validatorVars, factoryVars>>

\* the messages a driver or an adapter reports
HealthErrors == {"Not connected", "Unknown error"}

\* what an adapter's healthCheck() returns
HealthStatuses ==
  {[isHealthy |-> TRUE, responseTime |-> t, error |-> ""] : t \in ExecTimes}
    \cup {[isHealthy |-> FALSE, responseTime |-> t, error |-> e] :
            t \in ExecTimes, e \in HealthErrors}

----------------------------------------------------------------------------
(* MultiDatabaseMCPServer: the cross_database_query tool *)

MaxItems == 2

RECURSIVE TotalRows(_)
\* results.reduce((sum, r) => sum + r.rowCount, 0)
TotalRows(results) ==
  IF results = <<>> THEN 0 ELSE Head(results).rowCount + TotalRows(Tail(results))

\* what one item's task returns once its adapter.query() has resolved
ItemResult(item, task) ==
  [database |-> item.database,
   alias    |-> IF item.alias # "" THEN item.alias ELSE item.database,
   rowCount |-> task.rowCount]

\* Promise.all's value: every task's value at the position of its task, in
\* whatever order the tasks settled
AllResultsAsSettled(items, task, order) ==
  [i \in 1..Len(items) |-> ItemResult(items[order[i]], task[order[i]])]

AllResults(items, task, order) ==
  [i \in 1..Len(items) |-> ItemResult(items[i], task[i])]

\* the tool handler's catch: the text "Error executing cross_database_query: ..."
CrossError == [returned |-> TRUE, isError |-> TRUE, results |-> <<>>, summary |-> NoSummary]

CrossResponse(results) ==
  [returned |-> TRUE, isError |-> FALSE, results |-> results,
   summary |-> [totalQueries |-> Len(results), totalRows |-> TotalRows(results)]]

\* the tool call: each item's task looks its adapter up and calls query()
\* before the first await; a lookup that throws rejects the Promise.all.
\* The handler keeps nothing between calls, and one call is followed.
HandleCrossDatabaseQuery(queries) ==
  /\ Serving
  /\ crossPc = "idle"
  /\ ~crossRet.returned
  /\ UNCHANGED toolCalls
  /\ crossItems' = queries
  /\ crossOrder' = <<>>
  /\ crossTask' = [i \in 1..Len(queries) |->
                     [state |-> IF queries[i].database \in connections
                                THEN "pending"
                                ELSE "failed",
                      rowCount |-> 0]]
  /\ IF queries = <<>> \/ \E i \in 1..Len(queries) : crossTask'[i].state = "failed"
     THEN /\ crossPc' = "idle"
          /\ crossRet' = CrossError
     ELSE /\ crossPc' = "pending"
          /\ crossRet' = NoCrossRet
  /\ UNCHANGED <<connectVars, healthVars, adapterVars, execVars, schemaVars, validatorVars, factoryVars>>

\* adapter.query() of item i resolves
CrossItemOk(i, rowCount) ==
  /\ ~exited
  /\ crossPc = "pending"
  /\ i \in 1..Len(crossItems)
  /\ crossTask[i].state = "pending"
  /\ adapterState[crossItems[i].database] # "disconnected"
  /\ crossTask' = [crossTask EXCEPT ![i] = [state |-> "done", rowCount |-> rowCount]]
  /\ crossOrder' = Append(crossOrder, i)
  /\ IF \A j \in 1..Len(crossItems) : crossTask'[j].state = "done"
     THEN /\ crossPc' = "idle"
          /\ crossRet' = CrossResponse(AllResults(crossItems, crossTask', crossOrder'))
     ELSE UNCHANGED <<crossPc, crossRet>>
  /\ UNCHANGED <<crossItems, toolCalls, connectVars, healthVars, adapterVars, execVars, schemaVars, validatorVars, factoryVars>>

\* adapter.query() of item i rejects: the Promise.all rejects
CrossItemFail(i) ==
  /\ ~exited
  /\ crossPc = "pending"
  /\ i \in 1..Len(crossItems)
  /\ crossTask[i].state = "pending"
  /\ crossTask' = [crossTask EXCEPT ![i].state = "failed"]
  /\ crossOrder' = Append(crossOrder, i)
  /\ crossPc' = "idle"
  /\ crossRet' = CrossError
  /\ UNCHANGED <<crossItems, toolCalls, connectVars, healthVars, adapterVars, execVars, schemaVars, validatorVars, factoryVars>>

\* the queries argument an agent sends
CrossDatabases == PoolNames \cup {"nope"}
CrossItems == [database : CrossDatabases, alias : {"", "a"}]
CrossInputs == UNION {[1..n -> CrossItems] : n \in 0..MaxItems}

\* rowCount of one driver result
RowCounts == {1, MaxRows}

StartNext ==
  \/ ConnectAllCall
  \/ \E n \in PoolNames : ConnectOk(n) \/ ConnectFail(n)

ManagerNext ==
  \/ StartNext
  \/ DisconnectAllCall
  \/ \E n \in PoolNames : DisconnectOk(n) \/ DisconnectFail(n)
  \/ HealthCheckAllCall
  \/ \E n \in PoolNames : \/ \E health \in HealthStatuses : HealthReturns(n, health)
                          \/ \E message \in HealthErrors : HealthRaises(n, message)

\* connectAll() and disconnectAll() under a caller that handles the failure of
\* connectAll() and owns the cleanup, instead of main(), which exits.
\* adapter.connect() of pool n rejects: the task rethrows and Promise.all
\* rejects at the first such task; the other tasks run on
ConnectRejects(n) ==
  /\ ~exited
  /\ connectTask[n] = "pending"
  /\ adapterState' = [adapterState EXCEPT ![n] = "connect_failed"]
  /\ connectTask' = [connectTask EXCEPT ![n] = "failed"]
  /\ connectAllPc' = "rejected"
  /\ UNCHANGED <<connections, disconnectAllPc, disconnectTask, swept, exited, toolCalls>>
  /\ UNCHANGED <<healthVars, crossVars, adapterVars, execVars, schemaVars, validatorVars, factoryVars>>

\* what follows disconnectAll's Promise.all: the registry is cleared and
\* disconnectAll() returns to its caller
SweepReturns(task, names) ==
  IF AllSettled(task, names)
  THEN /\ connections' = {}
       /\ disconnectAllPc' = "resolved"
  ELSE /\ disconnectAllPc' = "pending"
       /\ UNCHANGED connections

\* the caller has seen connectAll() fail and calls disconnectAll(), for the
\* first time or once more after an earlier disconnectAll() has returned:
\* disconnect() is called on every adapter the registry holds at this moment
CleanupCall ==
  /\ ~exited
  /\ connectAllPc = "rejected"
  /\ disconnectAllPc # "pending"
  /\ swept' = connections
  /\ disconnectTask' = [n \in PoolNames |-> IF n \in connections THEN "pending" ELSE "none"]
  /\ adapterState' = [n \in PoolNames |->
                        IF n \in connections THEN "disconnecting" ELSE adapterState[n]]
  /\ SweepReturns(disconnectTask', connections)
  /\ UNCHANGED <<connectAllPc, connectTask, exited, toolCalls>>
  /\ UNCHANGED <<healthVars, crossVars, adapterVars, execVars, schemaVars, validatorVars, factoryVars>>

\* adapter.disconnect() of pool n resolves (outcome "disconnected") or rejects
\* and is logged by the task's catch (outcome "disconnect_failed")
CleanupSettles(n, outcome) ==
  /\ ~exited
  /\ disconnectTask[n] = "pending"
  /\ adapterState' = [adapterState EXCEPT ![n] = outcome]
  /\ disconnectTask' = [disconnectTask EXCEPT ![n] = "done"]
  /\ SweepReturns(disconnectTask', swept)
  /\ UNCHANGED <<connectAllPc, connectTask, swept, exited, toolCalls>>
  /\ UNCHANGED <<healthVars, crossVars, adapterVars, execVars, schemaVars, validatorVars, factoryVars>>

\* the caller looks at what the registry holds: healthCheckAll() has no
\* precondition of its own and calls healthCheck() on every registered adapter
CleanupHealthCheck ==
  /\ ~exited
  /\ connectAllPc # "idle"
  /\ healthPc = "idle"
  /\ toolCalls < MaxCalls
  /\ toolCalls' = toolCalls + 1
  /\ checked' = connections
  /\ healthTask' = [n \in PoolNames |->
                      IF n \in connections
                      THEN [NoHealthTask EXCEPT !.state = "pending"]
                      ELSE NoHealthTask]
  /\ HealthDone(healthTask', connections)
  /\ UNCHANGED <<connectVars, crossVars, adapterVars, execVars, schemaVars, validatorVars, factoryVars>>

CleanupNext ==
  \/ ConnectAllCall
  \/ \E n \in PoolNames : ConnectOk(n) \/ ConnectRejects(n)
  \/ CleanupCall
  \/ \E n \in PoolNames, outcome \in {"disconnected", "disconnect_failed"} :
       CleanupSettles(n, outcome)
  \/ CleanupHealthCheck
  \/ \E n \in PoolNames : \/ \E health \in HealthStatuses : HealthReturns(n, health)
                          \/ \E message \in HealthErrors : HealthRaises(n, message)

\* a shutdown during a call shows to the call as queries that fail
CrossNext ==
  \/ StartNext
  \/ \E queries \in CrossInputs : HandleCrossDatabaseQuery(queries)
  \/ \E i \in 1..MaxItems : \/ \E rowCount \in RowCounts : CrossItemOk(i, rowCount)
                            \/ CrossItemFail(i)

\* the options that reach the cache: the row limit and the dry run
CacheOptions == {options \in ExecOptions : options.timeout = 0 /\ options.enableAudit}

CacheNext ==
  \/ \E c \in Callers, query \in ExecQueries, options \in CacheOptions :
       ExecuteQuery(c, query, <<>>, options)
  \/ \E c \in Callers, results \in DriverResults : DbQueryOk(c, results)
  \/ \E c \in Callers : DbQueryFail(c)
  \/ \E c \in Callers : Timeout(c)
  \/ OrphanSettle
  \/ \E dt \in TickSteps : Tick(dt)

\* the query cache under statements whose texts differ in letter case only
KeyNext ==
  \/ \E c \in Callers, query \in KeyQueries, options \in CacheOptions :
       ExecuteQuery(c, query, <<>>, options)
  \/ \E c \in Callers, results \in DriverResults : DbQueryOk(c, results)
  \/ \E c \in Callers : DbQueryFail(c)
  \/ \E dt \in TickSteps : Tick(dt)

\* the audit log after n rejected calls, one in each millisecond from 1 to n
AuditHistory(n) ==
  [i \in 1..n |-> [timestamp |-> i, query |-> SqlDeleteUsers, executionTime |-> 0,
                   rowCount |-> 0, success |-> FALSE,
                   errorMessage |-> "Query validation failed"]]

\* an executor with an empty, an almost full or a full audit log
AuditInit ==
  /\ dbPool = "pool"
  /\ dbStatus = [isConnected |-> TRUE, activeQueries |-> 0]
  /\ dbPc = "idle"
  /\ queryCache = {}
  /\ \E n \in {0, maxAuditLogs - 1, maxAuditLogs} :
       /\ auditLogs = AuditHistory(n)
       /\ now = n
  /\ ticks = 0
  /\ ePc = [c \in Callers |-> "idle"]
  /\ eReq = [c \in Callers |-> NoEReq]
  /\ orphans = 0
  /\ eCalls = 0
  /\ eRet = NoERet

\* the options that reach the audit log
AuditOptions == {options \in ExecOptions : options.timeout = 0 /\ options.maxRows = 0}

AuditNext ==
  \/ \E c \in Callers, query \in ExecQueries, options \in AuditOptions :
       ExecuteQuery(c, query, <<>>, options)
  \/ \E c \in Callers, results \in DriverResults : DbQueryOk(c, results)
  \/ \E c \in Callers : DbQueryFail(c)

----------------------------------------------------------------------------
(* SchemaCache: the analyzers' cache of schema, table and profile data *)

\* SchemaCache constructor defaults
defaultTTL == 300000
fallbackSize == 1024

\* the limits the cache is constructed with (options.maxEntries, options.maxSize)
SchemaMaxEntries == 2
SchemaMaxSize == 8
\* set and invalidate calls, and get calls, per behaviour
MaxSchemaCalls == 2
MaxSchemaGets == 1

\* a value JSON.stringify cannot serialise
Unserializable == <<"circular">>

\* getSchemaKey .. getDatabaseInfoKey: the key as its text
KeyText(kind, databaseName, tableName) ==
  <<kind, ":">> \o databaseName \o (IF tableName = <<>> THEN <<>> ELSE <<":">> \o tableName)

SchemaKey(kind, databaseName, tableName) ==
  [kind |-> kind, databaseName |-> databaseName, tableName |-> tableName]

KeyKinds == {"schema", "table", "profile", "relationships", "dbinfo"}

\* estimateSize(data): two bytes per character of the JSON text
EstimateSize(data) == IF data = Unserializable THEN fallbackSize ELSE Len(data) * 2

\* index of the entry stored under key, 0 when there is none
EntryIndex(cache, key) ==
  IF \E i \in 1..Len(cache) : cache[i].key = key
  THEN CHOOSE i \in 1..Len(cache) : cache[i].key = key
  ELSE 0

\* Map.delete(key)
RECURSIVE DeleteWhere(_, _)
DeleteWhere(cache, gone) ==
  IF cache = <<>> THEN <<>>
  ELSE IF Head(cache).key \in gone THEN DeleteWhere(Tail(cache), gone)
  ELSE <<Head(cache)>> \o DeleteWhere(Tail(cache), gone)

\* Map.set(key, entry): a key already present keeps its place
MapSet(cache, entry) ==
  LET i == EntryIndex(cache, entry.key)
  IN  IF i = 0 THEN Append(cache, entry) ELSE [cache EXCEPT ![i] = entry]

\* getTotalSize()
RECURSIVE GetTotalSize(_)
GetTotalSize(cache) ==
  IF cache = <<>> THEN 0 ELSE Head(cache).size + GetTotalSize(Tail(cache))

\* shouldEvict(newEntrySize)
ShouldEvict(cache, newEntrySize) ==
  \/ Len(cache) >= SchemaMaxEntries
  \/ GetTotalSize(cache) + newEntrySize > SchemaMaxSize

\* a sort that puts the entries with more hits first
EvictMostHitFirst(a, b) ==
  IF a.hits # b.hits THEN a.hits > b.hits ELSE a.timestamp < b.timestamp

\* the comparison of evictEntries' sort: fewer hits first, then older first
EvictBefore(a, b) ==
  IF a.hits # b.hits THEN a.hits < b.hits ELSE a.timestamp < b.timestamp

\* entries.sort(...): stable, so ties keep the Map's order
RECURSIVE SortForEviction(_)
SortForEviction(cache) ==
  IF cache = <<>> THEN <<>>
  ELSE LET i == CHOOSE i \in 1..Len(cache) :
                  /\ \A j \in 1..Len(cache) : ~EvictBefore(cache[j], cache[i])
                  /\ \A j \in 1..(i - 1) : EvictBefore(cache[i], cache[j])
       IN  <<cache[i]>> \o SortForEviction(DeleteWhere(cache, {cache[i].key}))

\* the keys evictEntries deletes: from the front of the sorted entries until
\* the freed space covers requiredSpace (the test follows the deletion)
RECURSIVE EvictedKeys(_, _)
EvictedKeys(sorted, requiredSpace) ==
  IF sorted = <<>> THEN {}
  ELSE {Head(sorted).key} \union
       (IF Head(sorted).size >= requiredSpace THEN {}
        ELSE EvictedKeys(Tail(sorted), requiredSpace - Head(sorted).size))

\* evictEntries(requiredSpace)
EvictEntries(cache, requiredSpace) ==
  DeleteWhere(cache, EvictedKeys(SortForEviction(cache), requiredSpace))

NoSReq == [key |-> "none", data |-> <<>>, ttl |-> 0, currentTime |-> 0, size |-> 0]
NoSRet == [op |-> "none", key |-> "none", hit |-> FALSE, data |-> <<>>, outcome |-> "none"]

SchemaInit ==
  /\ schemaCache = <<>>
  /\ schemaStats = [hits |-> 0, misses |-> 0]
  /\ sPc = [c \in Callers |-> "idle"]
  /\ sReq = [c \in Callers |-> NoSReq]
  /\ sRet = NoSRet
  /\ sCalls = 0
  /\ wPc = "idle"
  /\ wTables = <<>>
  /\ wRet = "none"

warmupVars == <<wPc, wTables, wRet>>

\* an entry that is let live one millisecond longer
SchemaExpiredLate(entry) == now - entry.timestamp > entry.ttl + 1

\* an entry is past its time to live
SchemaExpired(entry) == now - entry.timestamp > entry.ttl

\* get(key) that counts a hit without touching the entry
SchemaGetUncounted(key) ==
  /\ schemaStats.hits + schemaStats.misses < MaxSchemaGets
  /\ LET i == EntryIndex(schemaCache, key)
     IN  IF i = 0
         THEN /\ schemaStats' = [schemaStats EXCEPT !.misses = @ + 1]
              /\ sRet' = [NoSRet EXCEPT !.op = "get", !.key = key, !.outcome = "miss"]
              /\ UNCHANGED schemaCache
         ELSE IF SchemaExpired(schemaCache[i])
         THEN /\ schemaCache' = DeleteWhere(schemaCache, {key})
              /\ schemaStats' = [schemaStats EXCEPT !.misses = @ + 1]
              /\ sRet' = [NoSRet EXCEPT !.op = "get", !.key = key, !.outcome = "expired"]
         ELSE /\ UNCHANGED schemaCache
              /\ schemaStats' = [schemaStats EXCEPT !.hits = @ + 1]
              /\ sRet' = [op |-> "get", key |-> key, hit |-> TRUE,
                          data |-> schemaCache[i].data, outcome |-> "hit"]
  /\ UNCHANGED <<sPc, sReq, sCalls, warmupVars, adapterVars, execVars, managerVars, validatorVars, factoryVars>>

\* get(key): null and a miss when there is no entry or the entry has expired
\* (which deletes it), otherwise the entry's data and a hit
SchemaGet(key) ==
  /\ schemaStats.hits + schemaStats.misses < MaxSchemaGets
  /\ LET i == EntryIndex(schemaCache, key)
     IN  IF i = 0
         THEN /\ schemaStats' = [schemaStats EXCEPT !.misses = @ + 1]
              /\ sRet' = [NoSRet EXCEPT !.op = "get", !.key = key, !.outcome = "miss"]
              /\ UNCHANGED schemaCache
         ELSE IF SchemaExpired(schemaCache[i])
         THEN /\ schemaCache' = DeleteWhere(schemaCache, {key})
              /\ schemaStats' = [schemaStats EXCEPT !.misses = @ + 1]
              /\ sRet' = [NoSRet EXCEPT !.op = "get", !.key = key, !.outcome = "expired"]
         ELSE /\ schemaCache' = [schemaCache EXCEPT ![i].hits = @ + 1]
              /\ schemaStats' = [schemaStats EXCEPT !.hits = @ + 1]
              /\ sRet' = [op |-> "get", key |-> key, hit |-> TRUE,
                          data |-> schemaCache[i].data, outcome |-> "hit"]
  /\ UNCHANGED <<sPc, sReq, sCalls, warmupVars, adapterVars, execVars, managerVars, validatorVars, factoryVars>>

\* the entry set() stores
NewEntry(key, data, entryTTL, currentTime, size) ==
  [key |-> key, data |-> data, timestamp |-> currentTime, ttl |-> entryTTL,
   hits |-> 0, size |-> size]

\* set(key, data, ttl) up to its first await: with room for the entry it is
\* stored at once, otherwise entries are evicted and the caller awaits
SchemaSet(c, key, data, ttl) ==
  /\ sCalls < MaxSchemaCalls
  /\ sPc[c] = "idle"
  /\ sCalls' = sCalls + 1
  /\ LET entryTTL == IF ttl = 0 THEN defaultTTL ELSE ttl
         size == EstimateSize(data)
     IN  IF ShouldEvict(schemaCache, size)
         THEN /\ schemaCache' = EvictEntries(schemaCache, size)
              /\ sPc' = [sPc EXCEPT ![c] = "storing"]
              /\ sReq' = [sReq EXCEPT ![c] = [key |-> key, data |-> data, ttl |-> entryTTL,
                                               currentTime |-> now, size |-> size]]
         ELSE /\ schemaCache' = MapSet(schemaCache, NewEntry(key, data, entryTTL, now, size))
              /\ UNCHANGED <<sPc, sReq>>
  /\ UNCHANGED <<schemaStats, sRet, warmupVars, adapterVars, execVars, managerVars, validatorVars, factoryVars>>

\* set() after `await this.evictEntries(size)`: the entry is stored
SchemaStore(c) ==
  /\ sPc[c] = "storing"
  /\ schemaCache' = MapSet(schemaCache, NewEntry(sReq[c].key, sReq[c].data, sReq[c].ttl,
                                                  sReq[c].currentTime, sReq[c].size))
  /\ sPc' = [sPc EXCEPT ![c] = "idle"]
  /\ sReq' = [sReq EXCEPT ![c] = NoSReq]
  /\ UNCHANGED <<schemaStats, sRet, sCalls, warmupVars, adapterVars, execVars, managerVars, validatorVars, factoryVars>>

\* cleanup(), run by the cleanup timer: expired entries are deleted
SchemaCleanup ==
  /\ \E i \in 1..Len(schemaCache) : SchemaExpired(schemaCache[i])
  /\ schemaCache' = DeleteWhere(schemaCache,
                       {schemaCache[i].key : i \in {j \in 1..Len(schemaCache) :
                                                      SchemaExpired(schemaCache[j])}})
  /\ UNCHANGED <<schemaStats, sPc, sReq, sRet, sCalls, warmupVars, adapterVars, execVars,
                 managerVars, validatorVars, factoryVars>>

\* invalidate() without a pattern: the cache is cleared and the stats reset
SchemaInvalidateAll ==
  /\ sCalls < MaxSchemaCalls
  /\ sCalls' = sCalls + 1
  /\ schemaCache' = <<>>
  /\ schemaStats' = [hits |-> 0, misses |-> 0]
  /\ UNCHANGED <<sPc, sReq, sRet, warmupVars, adapterVars, execVars, managerVars, validatorVars, factoryVars>>

\* inputs of the cache: the keys of one database, values of 2 and 5
\* characters of JSON, stored with the default time to live
SchemaKeys ==
  {SchemaKey("schema", <<"a">>, <<>>), SchemaKey("dbinfo", <<"a">>, <<>>),
   SchemaKey("table", <<"a">>, <<"t">>)}
SchemaValues == {<<"{", "}">>, <<"[", "1", ",", "2", "]">>}
SchemaTTLs == {0}
SchemaTickSteps == {defaultTTL - 1, defaultTTL + 1}

SchemaNext ==
  \/ \E key \in SchemaKeys : SchemaGet(key)
  \/ \E c \in Callers, key \in SchemaKeys, data \in SchemaValues, ttl \in SchemaTTLs :
       SchemaSet(c, key, data, ttl)
  \/ \E c \in Callers : SchemaStore(c)
  \/ SchemaCleanup
  \/ SchemaInvalidateAll
  \/ \E dt \in SchemaTickSteps : Tick(dt)

\* the cache after earlier sets and gets at time 0: one or two entries of two
\* characters of JSON, each with no hit or one
EvictHistories ==
  LET entry(key, hits) ==
        [NewEntry(key, <<"{", "}">>, defaultTTL, 0, EstimateSize(<<"{", "}">>))
           EXCEPT !.hits = hits]
  IN  {<<entry(SchemaKey("schema", <<"a">>, <<>>), h)>> : h \in 0..1}
      \union {<<entry(SchemaKey("schema", <<"a">>, <<>>), h1),
                entry(SchemaKey("dbinfo", <<"a">>, <<>>), h2)>> : h1 \in 0..1, h2 \in 0..1}

RECURSIVE TotalHits(_)
TotalHits(cache) == IF cache = <<>> THEN 0 ELSE Head(cache).hits + TotalHits(Tail(cache))

EvictInit ==
  /\ \E cache \in EvictHistories :
       /\ schemaCache = cache
       /\ schemaStats = [hits |-> TotalHits(cache), misses |-> 0]
  /\ sPc = [c \in Callers |-> "idle"]
  /\ sReq = [c \in Callers |-> NoSReq]
  /\ sRet = NoSRet
  /\ sCalls = 0
  /\ wPc = "idle"
  /\ wTables = <<>>
  /\ wRet = "none"

\* the clock between two sets
EvictTickSteps == {1}

EvictNext ==
  \/ \E c \in Callers, key \in SchemaKeys, data \in SchemaValues, ttl \in SchemaTTLs :
       SchemaSet(c, key, data, ttl)
  \/ \E c \in Callers : SchemaStore(c)
  \/ \E dt \in EvictTickSteps : Tick(dt)

\* RegExp(pattern).test(text) from the current position, for a pattern of
\* literal characters and `$`, which matches only at the end of the text; the
\* pattern need not reach the end of the text
RECURSIVE RegexMatchesAt(_, _)
RegexMatchesAt(pattern, text) ==
  IF pattern = <<>> THEN TRUE
  ELSE IF Head(pattern) = "$" THEN text = <<>> /\ RegexMatchesAt(Tail(pattern), text)
  ELSE /\ text # <<>>
       /\ Head(text) = Head(pattern)
       /\ RegexMatchesAt(Tail(pattern), Tail(text))

\* regex.test(key) for the pattern `^(kinds):rest`
PatternMatches(kinds, rest, key) ==
  /\ key.kind \in kinds
  /\ RegexMatchesAt(<<":">> \o rest, Tail(KeyText(key.kind, key.databaseName, key.tableName)))

\* invalidate(pattern): the entries whose key matches are deleted
Invalidate(cache, kinds, rest) ==
  DeleteWhere(cache, {cache[i].key : i \in {j \in 1..Len(cache) :
                                              PatternMatches(kinds, rest, cache[j].key)}})

\* invalidateDatabase(databaseName)
InvalidateDatabase(databaseName) ==
  /\ sCalls < MaxSchemaCalls
  /\ sCalls' = sCalls + 1
  /\ schemaCache' = Invalidate(schemaCache, KeyKinds, databaseName)
  /\ sRet' = [NoSRet EXCEPT !.op = "invalidateDatabase", !.data = databaseName,
                             !.outcome = "ok"]
  /\ UNCHANGED <<schemaStats, sPc, sReq, warmupVars, adapterVars, execVars, managerVars, validatorVars, factoryVars>>

\* invalidateTable(databaseName, tableName)
InvalidateTable(databaseName, tableName) ==
  /\ sCalls < MaxSchemaCalls
  /\ sCalls' = sCalls + 1
  /\ schemaCache' = Invalidate(schemaCache, {"table", "profile"},
                               databaseName \o <<":">> \o tableName)
  /\ sRet' = [NoSRet EXCEPT !.op = "invalidateTable",
                             !.data = databaseName \o <<":">> \o tableName,
                             !.outcome = "ok"]
  /\ UNCHANGED <<schemaStats, sPc, sReq, warmupVars, adapterVars, execVars, managerVars, validatorVars, factoryVars>>

\* databases and tables of the invalidation calls: names that share a prefix,
\* and a name with the `$` MySQL and PostgreSQL allow in identifiers
DatabaseNames == {<<"a">>, <<"a", "b">>, <<"a", "$">>}
TableNames == {<<"t">>, <<"t", "t">>}
InvalidateKeys ==
  {SchemaKey(kind, databaseName, <<>>) :
     kind \in {"schema", "relationships", "dbinfo"}, databaseName \in DatabaseNames}
  \union {SchemaKey(kind, databaseName, tableName) :
            kind \in {"table", "profile"}, databaseName \in DatabaseNames,
            tableName \in TableNames}

InvalidateNext ==
  \/ \E key \in InvalidateKeys : SchemaGet(key)
  \/ \E c \in Callers, key \in InvalidateKeys : SchemaSet(c, key, <<"[", "1", "]">>, 0)
  \/ \E c \in Callers : SchemaStore(c)
  \/ \E databaseName \in DatabaseNames : InvalidateDatabase(databaseName)
  \/ \E databaseName \in DatabaseNames, tableName \in TableNames :
       InvalidateTable(databaseName, tableName)

\* tables of one analysed schema
MaxWarmTables == 2
\* warmup profiles the tables below this row count
profileRowLimit == 10000

\* the database warmup() runs for, and the value every analyser step returns
WarmDatabase == <<"a">>
WarmData == <<"{", "}">>

\* `await this.set(key, data)` of warmup(), from the call to the stored entry
WarmSet(cache, key, data) ==
  LET size == EstimateSize(data)
  IN  MapSet(IF ShouldEvict(cache, size) THEN EvictEntries(cache, size) ELSE cache,
             NewEntry(key, data, defaultTTL, now, size))

\* warmup(databaseName, analyzer, profiler) up to analyzer.getDatabaseInfo()
WarmupCall ==
  /\ wPc = "idle"
  /\ wRet = "none"
  /\ wPc' = "dbinfo"
  /\ UNCHANGED <<schemaCache, schemaStats, sPc, sReq, sRet, sCalls, wTables, wRet,
                 adapterVars, execVars, managerVars, validatorVars, factoryVars>>

\* getDatabaseInfo() resolves: setDatabaseInfo, then analyzeFullSchema()
WarmupDbInfoOk ==
  /\ wPc = "dbinfo"
  /\ schemaCache' = WarmSet(schemaCache, SchemaKey("dbinfo", WarmDatabase, <<>>), WarmData)
  /\ wPc' = "schema"
  /\ UNCHANGED <<schemaStats, sPc, sReq, sRet, sCalls, wTables, wRet,
                 adapterVars, execVars, managerVars, validatorVars, factoryVars>>

\* analyzeFullSchema() resolves with schema.tables = tables: setFullSchema,
\* then getTableRelationships()
WarmupSchemaOk(tables) ==
  /\ wPc = "schema"
  /\ schemaCache' = WarmSet(schemaCache, SchemaKey("schema", WarmDatabase, <<>>), WarmData)
  /\ wTables' = tables
  /\ wPc' = "relationships"
  /\ UNCHANGED <<schemaStats, sPc, sReq, sRet, sCalls, wRet, adapterVars, execVars,
                 managerVars, validatorVars, factoryVars>>

\* getTableRelationships() resolves: setTableRelationships, then the table loop
WarmupRelationshipsOk ==
  /\ wPc = "relationships"
  /\ schemaCache' = WarmSet(schemaCache, SchemaKey("relationships", WarmDatabase, <<>>),
                            WarmData)
  /\ wPc' = "tables"
  /\ UNCHANGED <<schemaStats, sPc, sReq, sRet, sCalls, wTables, wRet,
                 adapterVars, execVars, managerVars, validatorVars, factoryVars>>

\* one round of `for (const table of schema.tables)`: setTableInfo and, for a
\* table under the row limit, profiler.profileTable(); after the last table
\* warmup() returns
WarmupTable ==
  /\ wPc = "tables"
  /\ IF wTables = <<>>
     THEN /\ wPc' = "idle"
          /\ wRet' = "completed"
          /\ UNCHANGED <<schemaCache, wTables>>
     ELSE /\ schemaCache' = WarmSet(schemaCache,
                                    SchemaKey("table", WarmDatabase, Head(wTables).name),
                                    WarmData)
          /\ IF Head(wTables).rowCount < profileRowLimit
             THEN wPc' = "profile" /\ UNCHANGED wTables
             ELSE wTables' = Tail(wTables) /\ UNCHANGED wPc
          /\ UNCHANGED wRet
  /\ UNCHANGED <<schemaStats, sPc, sReq, sRet, sCalls, adapterVars, execVars, managerVars, validatorVars, factoryVars>>

\* profileTable() resolves, with a profile or with null: setTableProfile for a
\* profile, then the next table
WarmupProfileOk(profile) ==
  /\ wPc = "profile"
  /\ IF profile
     THEN schemaCache' = WarmSet(schemaCache,
                                 SchemaKey("profile", WarmDatabase, Head(wTables).name),
                                 WarmData)
     ELSE UNCHANGED schemaCache
  /\ wTables' = Tail(wTables)
  /\ wPc' = "tables"
  /\ UNCHANGED <<schemaStats, sPc, sReq, sRet, sCalls, wRet, adapterVars, execVars,
                 managerVars, validatorVars, factoryVars>>

\* profileTable() rejects: the inner catch logs a warning, then the next table
WarmupProfileFail ==
  /\ wPc = "profile"
  /\ wTables' = Tail(wTables)
  /\ wPc' = "tables"
  /\ UNCHANGED <<schemaCache, schemaStats, sPc, sReq, sRet, sCalls, wRet,
                 adapterVars, execVars, managerVars, validatorVars, factoryVars>>

\* getDatabaseInfo(), analyzeFullSchema() or getTableRelationships() rejects:
\* the outer catch logs the error and throws it again
WarmupStepFail ==
  /\ wPc \in {"dbinfo", "schema", "relationships"}
  /\ wPc' = "idle"
  /\ wRet' = "raised"
  /\ UNCHANGED <<schemaCache, schemaStats, sPc, sReq, sRet, sCalls, wTables,
                 adapterVars, execVars, managerVars, validatorVars, factoryVars>>

\* results of analyzeFullSchema(): up to MaxWarmTables tables, small and large
WarmTable == [name : TableNames, rowCount : {0, profileRowLimit}]
WarmSchemas == UNION {[1..n -> WarmTable] : n \in 0..MaxWarmTables}

WarmupNext ==
  \/ WarmupCall
  \/ WarmupDbInfoOk
  \/ \E tables \in WarmSchemas : WarmupSchemaOk(tables)
  \/ WarmupRelationshipsOk
  \/ WarmupTable
  \/ \E profile \in BOOLEAN : WarmupProfileOk(profile)
  \/ WarmupProfileFail
  \/ WarmupStepFail
  \/ SchemaCleanup
  \/ \E dt \in SchemaTickSteps : Tick(dt)

----------------------------------------------------------------------------
(* QueryValidator.validate over bounded queries *)

\* lexemes of one query
MaxLexemes == 3

ValidatorLexemes ==
  {"SELECT", "DELETE", "FROM", "updated_at", "1", " ", "\n", "--", "/*", "*/"}
ValidatorQueries == UNION {[1..n -> ValidatorLexemes] : n \in 0..MaxLexemes}

\* a ValidationResult nothing has been written to
NoValidation ==
  [isValid |-> FALSE, errors |-> <<>>, warnings |-> <<>>, sanitized |-> FALSE,
   sanitizedQuery |-> <<>>]

ValidatorIdle(query) ==
  /\ vQuery = query
  /\ vPc = "idle"
  /\ vResult = NoValidation
  /\ vAgain = NoValidation

\* validator.validate(query)
ValidateCall ==
  /\ vPc = "idle"
  /\ vResult' = Validate(vQuery)
  /\ vPc' = "validated"
  /\ UNCHANGED <<vQuery, vAgain, adapterVars, execVars, managerVars, schemaVars, factoryVars>>

\* validator.validate(result.sanitizedQuery), for a result that carries one
ValidateAgain ==
  /\ vPc = "validated"
  /\ vResult.sanitized
  /\ vAgain' = Validate(vResult.sanitizedQuery)
  /\ vPc' = "revalidated"
  /\ UNCHANGED <<vQuery, vResult, adapterVars, execVars, managerVars, schemaVars, factoryVars>>

ValidatorNext ==
  \/ ValidateCall
  \/ ValidateAgain

----------------------------------------------------------------------------
(* DatabaseAdapterFactory.detectDatabaseType.  A host name is a sequence of *)
(* lexemes; host.includes(word) looks for the word among them.             *)

FactoryTypes == {"", "mysql", "postgresql", "sqlite"}
FactoryPorts == {0, 3306, 3307, 5432}
FactoryHosts ==
  {<<"localhost">>, <<"my-", "mysql", ".example">>, <<"my-", "postgres", ".example">>,
   <<"mysql", "-to-", "postgres">>, <<"postgres", "-to-", "mysql">>}
FactoryConfigs == [type : FactoryTypes, port : FactoryPorts, host : FactoryHosts]

\* config.host?.includes(word)
HostIncludes(host, word) == \E i \in 1..Len(host) : host[i] = word

\* DatabaseAdapterFactory.detectDatabaseType
DetectDatabaseType(config) ==
  IF config.type # "" THEN config.type
  ELSE IF config.port = 3306 \/ HostIncludes(config.host, "mysql") THEN "mysql"
  ELSE IF config.port = 5432 \/ HostIncludes(config.host, "postgres") THEN "postgresql"
  ELSE "mysql"

FactoryIdle(config) == detection = [config |-> config, type |-> "none"]

\* factory.detectDatabaseType(config)
DetectCall ==
  /\ detection.type = "none"
  /\ detection' = [detection EXCEPT !.type = DetectDatabaseType(detection.config)]
  /\ UNCHANGED <<adapterVars, execVars, managerVars, schemaVars, validatorVars>>

FactoryNext == DetectCall

----------------------------------------------------------------------------
(* Specifications *)

\* the part of the state an idle adapter / an idle executor contributes
AdapterIdle == AdapterInit /\ pool = "null" /\ ~metricsEnabled
ExecIdle == ExecInit /\ dbPool = "null"
ManagerIdle == ManagerInit
SchemaIdle == SchemaInit
NoValidator == ValidatorIdle(<<>>)
NoFactory == FactoryIdle([type |-> "", port |-> 0, host |-> <<>>])

vars == <<adapterVars, execVars, managerVars, schemaVars, validatorVars, factoryVars>>

\* the adapter under concurrent callers
InitAdapter == AdapterInit /\ ExecIdle /\ ManagerIdle /\ SchemaIdle /\ NoValidator /\ NoFactory
SpecAdapter == InitAdapter /\ [][AdapterNext]_vars

\* an adapter that is new, or connected, or whose disconnect() has completed
\* (pool.end() fulfilled: the pool is null again and the flag stays as
\* disconnect() set it)
ReconnectInit ==
  \/ AdapterInit
  \/ /\ pool = "null"
     /\ isConnected = FALSE
     /\ isShuttingDown = TRUE
     /\ activeQueries = 0
     /\ metricsEnabled \in BOOLEAN
     /\ metrics = ZeroMetrics
     /\ pc = [p \in Callers |-> "idle"]
     /\ req = [p \in Callers |-> NoReq]
     /\ txn = [p \in Callers |-> NoTxn]
     /\ checkedOut = 0
     /\ calls = 0
     /\ ret = [op |-> "disconnect", outcome |-> "ok", event |-> "disconnected",
               seen |-> NoSeen]

\* the adapter over its life: connect, disconnect, connect again
InitReconnect ==
  ReconnectInit /\ ExecIdle /\ ManagerIdle /\ SchemaIdle /\ NoValidator /\ NoFactory
SpecReconnect == InitReconnect /\ [][AdapterNext]_vars

\* the multi-database server's execute_query tool over one adapter
InitServer == ServerInit /\ ExecIdle /\ ManagerIdle /\ SchemaIdle /\ NoValidator /\ NoFactory
SpecServer == InitServer /\ [][ServerNext]_vars

\* the single-database server's executor over its connection
InitExec == ExecInit /\ AdapterIdle /\ ManagerIdle /\ SchemaIdle /\ NoValidator /\ NoFactory
SpecExec == InitExec /\ [][ExecNext]_vars

\* the executor's audit log, over a connection that stays up
InitAudit == AuditInit /\ AdapterIdle /\ ManagerIdle /\ SchemaIdle /\ NoValidator /\ NoFactory
SpecAudit == InitAudit /\ [][AuditNext]_vars

\* the executor's query cache, over a connection that stays up
InitCache == ExecInit /\ dbPool = "pool" /\ AdapterIdle /\ ManagerIdle /\ SchemaIdle /\ NoValidator /\ NoFactory
SpecCache == InitCache /\ [][CacheNext]_vars

\* the query cache under statements that differ in letter case
InitKey == ExecInit /\ dbPool = "pool" /\ AdapterIdle /\ ManagerIdle /\ SchemaIdle /\ NoValidator /\ NoFactory
SpecKey == InitKey /\ [][KeyNext]_vars

\* the connection manager and the tools that fan out over its pools
InitManager == ManagerInit /\ AdapterIdle /\ ExecIdle /\ SchemaIdle /\ NoValidator /\ NoFactory
SpecManager == InitManager /\ [][ManagerNext]_vars

\* the connection manager under a caller that cleans up after a failed connectAll()
InitCleanup == ManagerInit /\ AdapterIdle /\ ExecIdle /\ SchemaIdle /\ NoValidator /\ NoFactory
SpecCleanup == InitCleanup /\ [][CleanupNext]_vars

\* the schema cache under concurrent callers and its cleanup timer
InitSchema == SchemaInit /\ AdapterIdle /\ ExecIdle /\ ManagerIdle /\ NoValidator /\ NoFactory
SpecSchema == InitSchema /\ [][SchemaNext]_vars

\* the schema cache from a filled state on, where a set has to evict
InitEvict == EvictInit /\ AdapterIdle /\ ExecIdle /\ ManagerIdle /\ NoValidator /\ NoFactory
SpecEvict == InitEvict /\ [][EvictNext]_vars

\* the schema cache under invalidation by database and by table
InitInvalidate == SchemaInit /\ AdapterIdle /\ ExecIdle /\ ManagerIdle /\ NoValidator /\ NoFactory
SpecInvalidate == InitInvalidate /\ [][InvalidateNext]_vars

\* one warm-up of the schema cache
InitWarmup == SchemaInit /\ AdapterIdle /\ ExecIdle /\ ManagerIdle /\ NoValidator /\ NoFactory
SpecWarmup == InitWarmup /\ [][WarmupNext]_vars

\* the validator applied to every query of up to MaxLexemes lexemes
InitValidator ==
  /\ \E query \in ValidatorQueries : ValidatorIdle(query)
  /\ AdapterIdle /\ ExecIdle /\ ManagerIdle /\ SchemaIdle /\ NoFactory
SpecValidator == InitValidator /\ [][ValidatorNext]_vars

\* the factory's type detection applied to every config
InitFactory ==
  /\ \E config \in FactoryConfigs : FactoryIdle(config)
  /\ AdapterIdle /\ ExecIdle /\ ManagerIdle /\ SchemaIdle /\ NoValidator
SpecFactory == InitFactory /\ [][FactoryNext]_vars

\* the cross_database_query tool over the manager's pools
InitCross == ManagerInit /\ ExecIdle /\ AdapterIdle /\ SchemaIdle /\ NoValidator /\ NoFactory
SpecCross == InitCross /\ [][CrossNext]_vars

----------------------------------------------------------------------------
(* Properties of the adapter, of the execute_query tool and of the executor *)

\* C2: a query the validator rejects is never handed to adapter.query by the
\* execute_query tool: every statement the tool has in flight passed validation.
ToolDispatchesOnlyValidQueries ==
  \A p \in Callers :
    (pc[p] = "q_exec" /\ req[p].tool = "execute_query") => Validate(req[p].sql).isValid

\* caller p's query() returns in this step, at once or after its statement
QueryFinishes(p) ==
  \/ pc[p] = "q_exec" /\ pc'[p] = "idle"
  \/ pc[p] = "idle" /\ calls' = calls + 1 /\ pc' = pc /\ ret'.op = "query"

\* C4: on every exit path of query(), activeQueries is back at its value at
\* entry, once the statements of the other callers that are in flight at either
\* moment are set aside.
QueryRestoresActiveQueries ==
  [][\A p \in Callers :
       /\ (pc[p] = "q_exec" /\ pc'[p] = "idle") =>
            activeQueries' - OthersInFlight(p)' = req[p].activeQueries - req[p].inFlight
       /\ (pc[p] = "idle" /\ QueryFinishes(p)) => activeQueries' = activeQueries]_vars

\* C6: activeQueries is never negative.
ActiveQueriesNonNegative == activeQueries >= 0

\* caller p enters query() or transaction() in this step
CallStarts(p) ==
  /\ pc[p] = "idle"
  /\ calls' = calls + 1
  /\ \/ pc'[p] \in {"q_exec", "t_conn"}
     \/ pc' = pc /\ ret'.op \in {"query", "transaction"}

\* C7: once disconnect() has set isShuttingDown, a call of query() or
\* transaction() returns at once with the shutting-down error and dispatches
\* nothing (the not-connected error is accepted where the pool is already gone).
ShutdownRejectsCalls ==
  [][\A p \in Callers :
       (isShuttingDown /\ CallStarts(p)) =>
          /\ pc' = pc
          /\ ret'.outcome = IF pool = "null" THEN "not_connected" ELSE "shutting_down"]_vars

\* the adapter is not connected: never connected, connect failed, or disconnected
NotConnected == ~isConnected /\ \A p \in Callers : pc[p] # "c_test"

\* C8: a query() made while the adapter is not connected is rejected with an
\* explicit error and its statement is never dispatched.
DisconnectedRejectsQuery ==
  [][\A p \in Callers :
       (NotConnected /\ pc[p] = "idle" /\ calls' = calls + 1
          /\ (pc'[p] = "q_exec" \/ (pc' = pc /\ ret'.op = "query"))) =>
          /\ pc' = pc
          /\ ret'.outcome \in {"not_connected", "shutting_down"}]_vars

\* callers whose transaction() holds a connection of the pool
Holders == {p \in Callers : pc[p] \in {"t_begin", "t_stmt", "t_commit", "t_rollback"}}

\* C9: the connections checked out of the pool are exactly those of the
\* transactions between their acquisition and their finally block: every
\* transaction() that has ended released its connection once, not zero times
\* and not twice.
ConnectionReleasedOnce == checkedOut = Cardinality(Holders)

\* a transaction() ended by a failed ROLLBACK, the pool whole again
ReleasedAfterFailedRollback ==
  ret.op = "transaction" /\ ret.outcome = "rollback_failed" /\ checkedOut = 0 /\ Holders = {}

Rank(c) ==
  CASE c.kind = "BEGIN" -> 0
    [] c.kind = "STMT" -> 1
    [] c.kind = "COMMIT" -> 2
    [] c.kind = "ROLLBACK" -> 3

Sent(log, kind) == SelectSeq(log, LAMBDA c : c.kind = kind)

\* C10: what transaction() sends on its connection is BEGIN, then the
\* statements in the order given, then COMMIT only if every statement
\* succeeded; after the first failing statement no further statement is sent
\* and ROLLBACK is sent instead of COMMIT.
TransactionOrder ==
  \A p \in Holders :
    LET t == txn[p]
        log == t.log
        stmts == Sent(log, "STMT")
    IN  /\ log[1] = CmdBegin
        /\ \A i, j \in 1..Len(log) : i < j => Rank(log[i]) <= Rank(log[j])
        /\ \A kind \in {"BEGIN", "COMMIT", "ROLLBACK"} : Len(Sent(log, kind)) <= 1
        /\ Len(stmts) <= Len(t.queries)
        /\ \A i \in 1..Len(stmts) : stmts[i].sql = t.queries[i]
        /\ Sent(log, "COMMIT") # <<>> =>
             Len(stmts) = Len(t.queries) /\ Len(t.results) = Len(t.queries)
        /\ t.error = "statement" =>
             /\ Sent(log, "COMMIT") = <<>>
             /\ log[Len(log)] = CmdRollback
             /\ Len(stmts) = Len(t.results) + 1
        /\ pc[p] = "t_commit" => t.error = "none"

\* the first of two statements failed: ROLLBACK is being sent, the second
\* statement was not
RolledBackAfterFirstStatement ==
  \E p \in Callers :
    /\ pc[p] = "t_rollback"
    /\ txn[p].error = "statement"
    /\ Len(txn[p].queries) = 2
    /\ txn[p].results = <<>>

\* C1: a query the validator rejects makes executeQuery fail with the
\* validation error, and DatabaseConnection.query is not invoked for it: no
\* statement in flight belongs to a rejected query, and a call with a rejected
\* query ends in no other way than the validation failure.
ValidationPrecedesDatabase ==
  /\ \A c \in Callers : ePc[c] = "racing" => eReq[c].query \notin RejectedQueries
  /\ (eRet.op = "executeQuery" /\ eRet.query \in RejectedQueries) =>
       (eRet.outcome = "failed" /\ eRet.error = "Query validation failed")

\* DELETE FROM users was rejected while the pool was there and idle
RejectedBeforeDatabase ==
  /\ eRet.op = "executeQuery"
  /\ eRet.query = SqlDeleteUsers
  /\ eRet.error = "Query validation failed"
  /\ dbPool = "pool"
  /\ dbStatus.activeQueries = 0

\* C3: an executeQuery that ends in a validation rejection appends no entry to
\* the audit log.
RejectionLeavesAuditLog ==
  [][(eCalls' = eCalls + 1 /\ ePc' = ePc /\ eRet'.error = "Query validation failed")
       => auditLogs' = auditLogs]_vars

\* C5: when executeQuery reports a timeout, activeQueries is back at its value
\* at the call's entry, once the statements of other calls in flight at either
\* moment are set aside.
TimeoutRestoresActiveQueries ==
  [][\A c \in Callers :
       (ePc[c] = "racing" /\ ePc'[c] = "idle" /\ eRet'.error = "Query timeout") =>
          dbStatus'.activeQueries - (StatementsInFlight' - 1)
            = eReq[c].activeQueries - eReq[c].inFlight]_vars

\* m.averageExecutionTime and m.successRate are what the counters of m give
Derived(m) ==
  /\ m.averageExecutionTime.num * m.queriesExecuted
       = m.totalExecutionTime * m.averageExecutionTime.den
  /\ m.successRate.num * m.queriesExecuted
       = (m.queriesExecuted - m.errorCount) * 100 * m.successRate.den

\* the statement of caller p settles in this step; it failed
StatementSettles(p) ==
  \/ pc[p] = "q_exec" /\ pc'[p] = "idle"
  \/ pc[p] = "t_stmt" /\ txn'[p] # txn[p]
StatementFailed(p) ==
  \/ pc[p] = "q_exec" /\ ret'.outcome = "error"
  \/ pc[p] = "t_stmt" /\ pc'[p] = "t_rollback"

\* C11: with metrics enabled, after every step errorCount <= queriesExecuted
\* and, when queriesExecuted > 0, averageExecutionTime and successRate are the
\* quotients of the counters; a statement that settles adds exactly 1 to
\* queriesExecuted, and exactly 1 to errorCount if it failed and 0 otherwise.
MetricsConsistent ==
  [][metricsEnabled =>
       /\ metrics'.errorCount <= metrics'.queriesExecuted
       /\ metrics'.queriesExecuted > 0 => Derived(metrics')
       /\ \A p \in Callers :
            StatementSettles(p) =>
              /\ metrics'.queriesExecuted = metrics.queriesExecuted + 1
              /\ metrics'.errorCount =
                   metrics.errorCount + (IF StatementFailed(p) THEN 1 ELSE 0)]_vars

\* two statements counted, one failed, one millisecond in all
MetricsAfterFailure ==
  /\ metricsEnabled
  /\ metrics.queriesExecuted = 2
  /\ metrics.errorCount = 1
  /\ metrics.totalExecutionTime = 1

\* C12: when query() emits query_executed or query_failed for a statement, the
\* metrics already count the statement and activeQueries no longer does: the
\* listener reads the values the call leaves behind.
EventAfterBookkeeping ==
  [][\A p \in Callers :
       (pc[p] = "q_exec" /\ pc'[p] = "idle") =>
          /\ ret'.seen.queriesExecuted = metrics'.queriesExecuted
          /\ ret'.seen.activeQueries = activeQueries']_vars

----------------------------------------------------------------------------
(* Properties of the connection manager and of the cross_database_query tool *)

\* C13: once connectAll() has succeeded the registry holds one adapter for
\* every entry of config.connections, so getConnectionNames().length is the
\* number of configured pools, for as long as the process runs; and when the
\* connect of any pool has failed, connectAll() has failed.
ConnectAllRegistersEveryPool ==
  /\ Serving => /\ connections = PoolNames
                /\ Cardinality(connections) = NumPools
  /\ (\E n \in PoolNames : connectTask[n] = "failed") => connectAllPc = "rejected"

\* connectAll() has succeeded and a shutdown is sweeping the registry
RegisteredWhileServing ==
  /\ Serving
  /\ disconnectAllPc = "pending"
  /\ \E n \in PoolNames : adapterState[n] = "disconnected"

DisconnectInvoked(state) == state \in {"disconnecting", "disconnected", "disconnect_failed"}

\* C14: disconnectAll() calls disconnect() on every adapter that is registered
\* when it is called, whether or not other disconnects fail; it never rejects;
\* the registry keeps its entries while some disconnect is pending and is
\* empty once disconnectAll() has returned, every disconnect having settled.
DisconnectAllSweepsRegistry ==
  [][/\ (disconnectAllPc = "idle" /\ disconnectAllPc' # "idle") =>
          \A n \in connections : DisconnectInvoked(adapterState'[n])
     /\ disconnectAllPc' # "rejected"
     /\ disconnectAllPc' = "pending" => swept' \subseteq connections'
     /\ disconnectAllPc' = "resolved" =>
          /\ connections' = {}
          /\ \A n \in swept' : /\ disconnectTask'[n] = "done"
                               /\ adapterState'[n] \in {"disconnected", "disconnect_failed"}]_vars

\* a sweep over every pool has ended although one disconnect failed
SweptDespiteFailure ==
  /\ disconnectAllPc = "resolved"
  /\ swept = PoolNames
  /\ \E n \in swept : adapterState[n] = "disconnect_failed"
  /\ \E n \in swept : adapterState[n] = "disconnected"

RECURSIVE SumRowCount(_, _)
SumRowCount(task, k) == IF k = 0 THEN 0 ELSE task[k].rowCount + SumRowCount(task, k - 1)

\* C16: a cross-database call that returns results returns one per item, in
\* the order of the items whatever order the queries settled in: results[i]
\* carries the database of queries[i] and its alias (the database when no
\* alias was given); summary.totalQueries is the number of items and
\* summary.totalRows the sum of the rowCount of the items' results.
CrossResultsInInputOrder ==
  (crossRet.returned /\ ~crossRet.isError) =>
     /\ Len(crossRet.results) = Len(crossItems)
     /\ \A i \in 1..Len(crossItems) :
          /\ crossRet.results[i].database = crossItems[i].database
          /\ crossRet.results[i].alias =
               (IF crossItems[i].alias = "" THEN crossItems[i].database
                                            ELSE crossItems[i].alias)
          /\ crossRet.results[i].rowCount = crossTask[i].rowCount
     /\ crossRet.summary.totalQueries = Len(crossItems)
     /\ crossRet.summary.totalRows = SumRowCount(crossTask, Len(crossItems))

\* two items on different pools, the second settled first
SettledOutOfOrder ==
  /\ crossRet.returned
  /\ ~crossRet.isError
  /\ crossOrder = <<2, 1>>
  /\ crossItems[1].database # crossItems[2].database
  /\ crossTask[1].rowCount # crossTask[2].rowCount

\* C17: when one item of a cross-database call fails, on an unknown pool or on
\* a failing query, the call still returns the result of every item whose
\* query succeeded.
CrossFailureIsPerItem ==
  crossRet.returned =>
     \A i \in 1..Len(crossItems) :
        crossTask[i].state = "done" =>
           \E k \in 1..Len(crossRet.results) :
              crossRet.results[k] = ItemResult(crossItems[i], crossTask[i])

----------------------------------------------------------------------------
(* Properties of the executor's query cache *)

\* caller c's executeQuery(query, [], options) returned a result without
\* reaching the database or the dry-run branch: the result came from the cache
ServedFromCache(c, query, options) ==
  /\ ExecuteQuery(c, query, <<>>, options)
  /\ ~options.dryRun
  /\ ePc'[c] = "idle"
  /\ eRet'.outcome = "ok"

\* C18: a result executeQuery returns from the cache has cached = true and is
\* the result of an entry under the call's key whose age, now - timestamp, is
\* at most its ttl; an entry under the call's key that is older than its ttl
\* is not served and is gone from the cache after the lookup.
CacheServesOnlyFresh ==
  [][\A c \in Callers, query \in ExecQueries \ RejectedQueries, options \in CacheOptions :
       (eCalls' # eCalls /\ ExecuteQuery(c, query, <<>>, options)) =>
         LET found == CacheEntries(queryCache, GenerateCacheKey(query, <<>>))
         IN  /\ ServedFromCache(c, query, options) =>
                  /\ eRet'.result.cached
                  /\ \E e \in found :
                       /\ now - e.timestamp <= e.ttl
                       /\ eRet'.result.rows = e.result.rows
                       /\ eRet'.result.cacheAge = now - e.timestamp
             /\ \A e \in found :
                  now - e.timestamp > e.ttl =>
                     /\ e \notin queryCache'
                     /\ ~ServedFromCache(c, query, options)]_vars

\* a call was served rows from an entry one millisecond old
ServedAgedEntry ==
  /\ eRet.outcome = "ok"
  /\ eRet.result.cached
  /\ eRet.result.cacheAge = 1
  /\ Len(eRet.result.rows) = MaxRows

\* the call that returned last was an executeQuery(query) that got its rows
\* from the database, and nothing has been called since
JustReturnedFresh(query) ==
  /\ \A d \in Callers : ePc[d] = "idle"
  /\ dbPc = "idle"
  /\ eRet.op = "executeQuery"
  /\ eRet.query = query
  /\ eRet.outcome = "ok"
  /\ ~eRet.result.dryRun
  /\ ~eRet.result.cached
  /\ ~eRet.result.metadata
  /\ eRet.result.rowCount <= maxCachedRowCount

\* C19: when an executeQuery of a cacheable SELECT has returned rows from the
\* database and the next call is an executeQuery of the same query and
\* parameters, made while what the first call stored is not older than the
\* cache TTL, the second call returns cached = true with the rows of the
\* first and sends nothing to the database: one statement over the two calls.
SecondCallServedFromCache ==
  [][\A c \in Callers, query \in ExecQueries \ RejectedQueries, options \in CacheOptions :
       (/\ JustReturnedFresh(query)
        /\ ExecuteQuery(c, query, <<>>, options)
        /\ ~options.dryRun
        /\ ShouldCacheQuery(query)
        /\ \A e \in CacheEntries(queryCache, GenerateCacheKey(query, <<>>)) :
             now - e.timestamp <= cacheTTL)
       => /\ ePc'[c] = "idle"
          /\ dbStatus' = dbStatus
          /\ eRet'.outcome = "ok"
          /\ eRet'.result.cached
          /\ eRet'.result.rows = eRet.result.rows]_vars

\* two calls in all: the second was served the rows the first had just stored
SecondCallHit ==
  /\ eCalls = 2
  /\ eRet.outcome = "ok"
  /\ eRet.result.cached
  /\ eRet.result.cacheAge = 0
  /\ Len(eRet.result.rows) = MaxRows
  /\ dbStatus.activeQueries = 0

\* options.maxRows || securityConfig.maxResultRows
EffectiveMaxRows(options) ==
  IF options.maxRows # 0 THEN options.maxRows ELSE maxResultRows

WithinMaxRows(result, M) ==
  /\ Len(result.rows) <= M
  /\ result.truncated <=> result.totalRows > M
  /\ result.truncated => (Len(result.rows) = M /\ M < result.totalRows)

\* C20: a result executeQuery returns, from the database or from the cache,
\* to a call whose effective maxRows is M has at most M rows, has truncated =
\* true exactly when totalRows > M, and, when truncated, has exactly M rows
\* with M < totalRows.
ResultWithinMaxRows ==
  [][\A c \in Callers :
       /\ (ePc[c] = "racing" /\ ePc'[c] = "idle" /\ eRet'.outcome = "ok") =>
             WithinMaxRows(eRet'.result, EffectiveMaxRows(eReq[c].options))
       /\ \A query \in ExecQueries \ RejectedQueries, options \in CacheOptions :
             ServedFromCache(c, query, options) =>
                WithinMaxRows(eRet'.result, EffectiveMaxRows(options))]_vars

----------------------------------------------------------------------------
(* Properties of the executor's failures, dry runs and audit log *)

\* C21: when a statement of executeQuery fails or its timer fires, the call
\* adds nothing to the query cache, and neither does the timed-out statement
\* when it settles afterwards.
FailureLeavesCache ==
  [][/\ \A c \in Callers :
          (ePc[c] = "racing" /\ ePc'[c] = "idle" /\ eRet'.outcome = "failed") =>
             queryCache' = queryCache
     /\ orphans' < orphans => queryCache' = queryCache]_vars

\* a call has timed out, its statement has settled since, nothing is cached
TimedOutStatementSettled ==
  /\ eRet.error = "Query timeout"
  /\ orphans = 0
  /\ dbStatus.activeQueries = 0
  /\ \A c \in Callers : ePc[c] = "idle"
  /\ queryCache = {}

\* C22: an executeQuery with dryRun = true sends nothing to the database
\* whatever the cache holds, returns rows = [], rowCount = 0, dryRun = true and
\* cached = false, and leaves the query cache as it found it.
DryRunTouchesNothing ==
  [][\A c \in Callers, query \in ExecQueries \ RejectedQueries, options \in CacheOptions :
       (eCalls' # eCalls /\ options.dryRun /\ ExecuteQuery(c, query, <<>>, options)) =>
          /\ ePc'[c] = "idle"
          /\ dbStatus' = dbStatus
          /\ eRet'.outcome = "ok"
          /\ eRet'.result = [NoResult EXCEPT !.dryRun = TRUE]
          /\ queryCache' = queryCache]_vars

\* a statement of a call that asked for auditing settles
AuditedCallCompletes ==
  \E c \in Callers :
     ePc[c] = "racing" /\ ePc'[c] = "idle" /\ eReq[c].options.enableAudit

\* C23: the audit log never holds more than 1000 entries; whenever an audited
\* call completes or the log changes, the entry of the call that completes in
\* that step is put last, the entries before it keep their order, and only
\* entries at the old end leave, as many as it takes to stay within the bound.
AuditLogIsRing ==
  [][/\ Len(auditLogs') <= maxAuditLogs
     /\ (AuditedCallCompletes \/ auditLogs' # auditLogs) =>
          LET dropped == Len(auditLogs) + 1 - Len(auditLogs')
          IN  /\ dropped = (IF Len(auditLogs) = maxAuditLogs THEN 1 ELSE 0)
              /\ \A i \in 1..(Len(auditLogs') - 1) : auditLogs'[i] = auditLogs[i + dropped]
              /\ auditLogs'[Len(auditLogs')].timestamp = now
              /\ auditLogs'[Len(auditLogs')].query = eRet'.query
              /\ auditLogs'[Len(auditLogs')].success = (eRet'.outcome = "ok")]_vars

\* the log is full, its two oldest entries have left and two calls are last
OldestEntriesDropped ==
  /\ Len(auditLogs) = maxAuditLogs
  /\ auditLogs[1].timestamp = 3
  /\ auditLogs[maxAuditLogs].success
  /\ ~auditLogs[maxAuditLogs - 1].success
  /\ auditLogs[maxAuditLogs - 1].timestamp = maxAuditLogs

----------------------------------------------------------------------------
(* Properties of the schema cache *)

\* the entry stored under key
EntryOf(cache, key) == cache[EntryIndex(cache, key)]

\* C24: set(k, v) stores v under k with no hits, and a get(k) within the
\* entry's time to live returns the stored v and adds exactly 1 to the entry's
\* hits and to the global hit counter, leaving the miss counter alone.
SetThenGetReturnsValue ==
  [][/\ \A key \in SchemaKeys, data \in SchemaValues, ttl \in SchemaTTLs :
          (/\ sCalls' # sCalls /\ sPc' = sPc /\ schemaCache' # <<>>
           /\ \E c \in Callers : sPc[c] = "idle"
           /\ SchemaSet(CHOOSE c \in Callers : sPc[c] = "idle", key, data, ttl)) =>
             /\ EntryIndex(schemaCache', key) # 0
             /\ EntryOf(schemaCache', key).data = data
             /\ EntryOf(schemaCache', key).hits = 0
             /\ EntryOf(schemaCache', key).timestamp = now
     /\ \A c \in Callers :
          (sPc[c] = "storing" /\ sPc'[c] = "idle") =>
             /\ EntryIndex(schemaCache', sReq[c].key) # 0
             /\ EntryOf(schemaCache', sReq[c].key).data = sReq[c].data
             /\ EntryOf(schemaCache', sReq[c].key).hits = 0
     /\ \A key \in SchemaKeys :
          (schemaStats' # schemaStats /\ SchemaGet(key) /\ EntryIndex(schemaCache, key) # 0
             /\ now - EntryOf(schemaCache, key).timestamp <= EntryOf(schemaCache, key).ttl) =>
             /\ sRet'.hit
             /\ sRet'.data = EntryOf(schemaCache, key).data
             /\ EntryIndex(schemaCache', key) # 0
             /\ EntryOf(schemaCache', key).hits = EntryOf(schemaCache, key).hits + 1
             /\ schemaStats'.hits = schemaStats.hits + 1
             /\ schemaStats'.misses = schemaStats.misses]_vars

\* a get has returned the value that was set, some time after the set
GotWhatWasSet ==
  /\ sRet.outcome = "hit"
  /\ now = defaultTTL - 1
  /\ schemaStats = [hits |-> 1, misses |-> 0]
  /\ EntryIndex(schemaCache, sRet.key) # 0
  /\ EntryOf(schemaCache, sRet.key).timestamp = 0
  /\ EntryOf(schemaCache, sRet.key).hits = 1
  /\ EntryOf(schemaCache, sRet.key).data = sRet.data

\* C25: get(k) never returns an entry older than its time to live: an entry of
\* age up to ttl (ttl - 1 among them) is a hit, an entry of a greater age
\* (ttl + 1 among them) makes the get return null, count one miss and no hit,
\* and leave the cache without an entry under k.
GetNeverReturnsExpired ==
  [][\A key \in SchemaKeys :
       (schemaStats' # schemaStats /\ SchemaGet(key) /\ EntryIndex(schemaCache, key) # 0) =>
          IF now - EntryOf(schemaCache, key).timestamp > EntryOf(schemaCache, key).ttl
          THEN /\ ~sRet'.hit
               /\ schemaStats'.misses = schemaStats.misses + 1
               /\ schemaStats'.hits = schemaStats.hits
               /\ EntryIndex(schemaCache', key) = 0
          ELSE sRet'.hit]_vars

\* a get found an entry of age ttl + 1 and removed it
ExpiredEntryRemoved ==
  /\ sRet.outcome = "expired"
  /\ now = defaultTTL + 1
  /\ schemaStats = [hits |-> 0, misses |-> 1]
  /\ EntryIndex(schemaCache, sRet.key) = 0

\* C26: the schema cache stays within its limits: in every state it holds at
\* most maxEntries entries and their estimated sizes sum to at most maxSize.
CacheWithinLimits ==
  /\ Len(schemaCache) <= SchemaMaxEntries
  /\ GetTotalSize(schemaCache) <= SchemaMaxSize

\* C27: after invalidateDatabase(db) the cache holds no entry under any key of
\* that database (schema:db, table:db:*, profile:db:*, relationships:db,
\* dbinfo:db), so a get of such a key returns null until the key is set again.
InvalidateDatabaseEmptiesDatabase ==
  [][\A databaseName \in DatabaseNames :
       (sCalls' # sCalls /\ InvalidateDatabase(databaseName)) =>
          \A key \in InvalidateKeys :
             key.databaseName = databaseName => EntryIndex(schemaCache', key) = 0]_vars

\* C28: warmup() never raises: whichever warm-up step fails, the failure is
\* logged and the call completes.
WarmupNeverRaises == wRet # "raised"

\* the entries of a cache, as a set
Entries(cache) == {cache[i] : i \in 1..Len(cache)}

RECURSIVE SumSizes(_)
SumSizes(entries) ==
  IF entries = {} THEN 0
  ELSE LET e == CHOOSE e \in entries : TRUE IN e.size + SumSizes(entries \ {e})

----------------------------------------------------------------------------
(* Properties of the validator *)

\* C29: normalization is idempotent: validating the sanitizedQuery of a query
\* that passed the basic input check yields that same sanitizedQuery again.
NormalizationIdempotent ==
  vPc = "revalidated" =>
     vAgain.sanitized /\ vAgain.sanitizedQuery = vResult.sanitizedQuery

LeadingOperations == {"SELECT", "SHOW", "DESCRIBE", "DESC", "EXPLAIN", "ANALYZE", "WITH"}

\* C31: a query is accepted only if its first word is one of SELECT, SHOW,
\* DESCRIBE, DESC, EXPLAIN, ANALYZE, WITH, and isOperationAllowed is true for
\* exactly those operations.
OnlyLeadingOperationsAccepted ==
  /\ (vPc # "idle" /\ vResult.isValid) =>
        LET firstWord == Words(NormalizeQuery(vQuery))[1]
        IN  Len(firstWord) = 1 /\ firstWord[1] \in LeadingOperations
  /\ \A operation \in ValidatorLexemes \union LeadingOperations :
        IsOperationAllowed(operation) <=> Upper(operation) \in LeadingOperations

\* the lexemes of q that are neither white space nor inside a line comment,
\* a line comment running from "--" to the end of its line
RECURSIVE OutsideLineComments(_, _)
OutsideLineComments(q, inComment) ==
  IF q = <<>> THEN <<>>
  ELSE IF Head(q) \in {"\n", "\r"} THEN OutsideLineComments(Tail(q), FALSE)
  ELSE IF inComment \/ Head(q) = "--" THEN OutsideLineComments(Tail(q), TRUE)
  ELSE IF IsSpace(Head(q)) THEN OutsideLineComments(Tail(q), FALSE)
  ELSE <<Head(q)>> \o OutsideLineComments(Tail(q), FALSE)

\* C33: a line comment is stripped from `--` to the end of its own line only:
\* of a query without block comments, sanitizedQuery keeps every word outside
\* the line comments, those on the lines after a comment included.
LineCommentEndsWithItsLine ==
  (/\ vPc # "idle"
   /\ vResult.sanitized
   /\ \A i \in 1..Len(vQuery) : vQuery[i] \notin {"/*", "*/"}) =>
     OutsideLineComments(vResult.sanitizedQuery, FALSE) = OutsideLineComments(vQuery, FALSE)

----------------------------------------------------------------------------
(* Properties of the adapter factory *)

\* C32: the type is config.type when set; otherwise port 3306 gives mysql and
\* port 5432 gives postgresql whatever the host name contains; otherwise a host
\* name with 'mysql' gives mysql and one with 'postgres' postgresql; otherwise
\* mysql.
PortDecidesBeforeHost ==
  detection.type # "none" =>
     LET config == detection.config
     IN  detection.type =
           (IF config.type # "" THEN config.type
            ELSE IF config.port = 3306 THEN "mysql"
            ELSE IF config.port = 5432 THEN "postgresql"
            ELSE IF HostIncludes(config.host, "mysql") THEN "mysql"
            ELSE IF HostIncludes(config.host, "postgres") THEN "postgresql"
            ELSE "mysql")

----------------------------------------------------------------------------
(* Properties of the adapter over connect, disconnect and connect again *)

\* C35: after a connect() that failed, a later connect() on the same adapter
\* attempts the connection again: it does not return as already connected while
\* the adapter is not connected and no other connect() is under way.
FailedConnectIsRetried ==
  [][\A p \in Callers :
       (/\ ret.op = "connect" /\ ret.outcome = "connect_failed"
        /\ NotConnected
        /\ pc[p] = "idle" /\ calls' = calls + 1
        /\ (pc'[p] = "c_test" \/ (pc' = pc /\ ret'.op = "connect"))) =>
          pc'[p] = "c_test"]_vars

\* C36: once a disconnect() has completed and a later connect() has succeeded,
\* query() is dispatched: the first call after that connect() returned, when
\* it is a query(), is not rejected as shutting down.
ReconnectedAdapterTakesQueries ==
  [][\A p \in Callers :
       (/\ ret.op = "connect" /\ ret.outcome = "ok"
        /\ isConnected /\ pool = "pool"
        /\ \A q \in Callers : pc[q] = "idle"
        /\ calls' = calls + 1
        /\ (pc'[p] = "q_exec" \/ (pc' = pc /\ ret'.op = "query"))) =>
          pc'[p] = "q_exec"]_vars

----------------------------------------------------------------------------
(* Properties of the cleanup after a failed connectAll() *)

\* C37: once disconnectAll() has returned after a failed connectAll(), the
\* registry is empty and stays so, and no adapter that connectAll() created is
\* connected, whatever the pools were doing when the failure was reported or
\* when disconnectAll() ran.
CleanupLeavesNothingConnected ==
  (connectAllPc = "rejected" /\ disconnectAllPc = "resolved") =>
     /\ connections = {}
     /\ \A n \in PoolNames : adapterState[n] # "connected"

----------------------------------------------------------------------------
(* Properties of the query cache key *)

\* C38: the query cache returns an entry only to a call with the SQL text of
\* the call that stored it: when the only call so far has returned rows from
\* the database, a call with a different text is not served from the cache.
CacheEntryServesItsQueryOnly ==
  [][\A c \in Callers, first \in KeyQueries, second \in KeyQueries,
        options \in CacheOptions :
       (/\ first # second
        /\ eCalls = 1
        /\ JustReturnedFresh(first)
        /\ ExecuteQuery(c, second, <<>>, options))
       => ~(eRet'.outcome = "ok" /\ eRet'.result.cached)]_vars

----------------------------------------------------------------------------
(* Properties of the validation result *)

\* C39: validate() returns isValid true exactly when its errors list is empty:
\* every error in the list comes with isValid false, the error of the
\* DELETE/UPDATE-without-WHERE check included.
ValidExactlyWhenNoErrors ==
  /\ vPc # "idle" => (vResult.isValid <=> vResult.errors = <<>>)
  /\ vPc = "revalidated" => (vAgain.isValid <=> vAgain.errors = <<>>)

\* a DELETE without WHERE has been rejected, the error of that check in the list
UnguardedDeleteRejected ==
  /\ vPc = "validated"
  /\ vQuery = <<"DELETE", " ", "FROM">>
  /\ ~vResult.isValid
  /\ \E e \in 1..Len(vResult.errors) :
        vResult.errors[e] = <<"DELETE/UPDATE without WHERE clause is not allowed", <<>> >>

----------------------------------------------------------------------------
(* Properties of the invalidation by database and by table *)

\* C40: invalidateDatabase(db) removes only entries of database db, and
\* invalidateTable(db, t) only the table and profile entries of table t of db:
\* every other entry stays as it was, those of a database or table whose name
\* starts with db or t included, and the hit and miss counters are unchanged.
InvalidationRemovesOnlyItsOwn ==
  [][/\ \A databaseName \in DatabaseNames :
          (sCalls' # sCalls /\ InvalidateDatabase(databaseName)) =>
             /\ schemaStats' = schemaStats
             /\ \A e \in Entries(schemaCache) :
                   e.key.databaseName # databaseName => e \in Entries(schemaCache')
     /\ \A databaseName \in DatabaseNames, tableName \in TableNames :
          (sCalls' # sCalls /\ InvalidateTable(databaseName, tableName)) =>
             /\ schemaStats' = schemaStats
             /\ \A e \in Entries(schemaCache) :
                   ~(/\ e.key.kind \in {"table", "profile"}
                     /\ e.key.databaseName = databaseName
                     /\ e.key.tableName = tableName) => e \in Entries(schemaCache')]_vars

====
